---- MODULE Spec2Model ----
(***************************************************************************)
(* Model of scripts/opentitan/gdbreplay.py: a GDB remote server replaying  *)
(* a recorded QEMU execution trace.                                        *)
(*                                                                         *)
(* Bytes are integers 0..255, byte strings are sequences of bytes.         *)
(* Python's None is the empty tuple <<>> and a present value v is <<v>>.   *)
(* Python indices are 0-based: seq[i] of the source is seq[i+1] here.      *)
(* An operator that models a method returns a record holding the object's  *)
(* new value, the returned value and the name of the exception that left   *)
(* the method ("None" when it returned normally).                          *)
(***************************************************************************)
EXTENDS Integers, Sequences, FiniteSets, TLC

(* ------------------------------ bounds --------------------------------- *)

\* How many steps beyond len(seq) the model lets a cursor run.
MaxOvershoot == 2

\* How many bytes the model lets wait in the receive buffer.
MaxBuf == 8

(* --------------------------- bytes and text ---------------------------- *)

\* The printable ASCII characters, code 32 first (code 96 by its name).
Printable ==
  << " ", "!", "\"", "#", "$", "%", "&", "'", "(", ")", "*", "+", ",", "-",
     ".", "/", "0", "1", "2", "3", "4", "5", "6", "7", "8", "9", ":", ";",
     "<", "=", ">", "?", "@", "A", "B", "C", "D", "E", "F", "G", "H", "I",
     "J", "K", "L", "M", "N", "O", "P", "Q", "R", "S", "T", "U", "V", "W",
     "X", "Y", "Z", "[", "\\", "]", "^", "_", "grave", "a", "b", "c", "d", "e",
     "f", "g", "h", "i", "j", "k", "l", "m", "n", "o", "p", "q", "r", "s",
     "t", "u", "v", "w", "x", "y", "z", "{", "|", "}", "~" >>

\* The byte value of a one-character string.
Ord(c) == 31 + (CHOOSE i \in 1..Len(Printable) : Printable[i] = c)

\* str.encode(): the bytes of a text given as a tuple of characters.
Bytes(s) == [i \in 1..Len(s) |-> Ord(s[i])]

\* The sum of the bytes bs[lo..hi], by halves.
RECURSIVE SumFrom(_, _, _)
SumFrom(bs, lo, hi) ==
  IF lo > hi THEN 0
  ELSE IF lo = hi THEN bs[lo]
  ELSE SumFrom(bs, lo, (lo + hi) \div 2) + SumFrom(bs, (lo + hi) \div 2 + 1, hi)

\* sum(payload) of a byte string.
Sum(bs) == SumFrom(bs, 1, Len(bs))

\* bytes.find(b, start): the 0-based index of the first byte b at or after
\* the 0-based index start, -1 when there is none.
Find(bs, b, start) ==
  LET hits == {i \in (start + 1)..Len(bs) : bs[i] = b}
  IN IF hits = {} THEN 0 - 1
     ELSE (CHOOSE i \in hits : \A j \in hits : i <= j) - 1

\* The slice data[a:b] of Python, for a >= 0 and any integer b.
PySlice(data, a, b) ==
  LET n  == Len(data)
      hi == IF b < 0 THEN (IF n + b < 0 THEN 0 ELSE n + b)
            ELSE (IF b > n THEN n ELSE b)
      lo == IF a > n THEN n ELSE a
  IN IF lo >= hi THEN <<>> ELSE SubSeq(data, lo + 1, hi)

\* bytes.split(sep): the pieces of bs between the occurrences of byte sep.
RECURSIVE Split(_, _)
Split(bs, sep) ==
  LET i == Find(bs, sep, 0)
  IN IF i < 0 THEN <<bs>>
     ELSE <<SubSeq(bs, 1, i)>> \o Split(SubSeq(bs, i + 2, Len(bs)), sep)

\* bytes.split(sep, 1): at most one cut.
Split1(bs, sep) ==
  LET i == Find(bs, sep, 0)
  IN IF i < 0 THEN <<bs>>
     ELSE <<SubSeq(bs, 1, i), SubSeq(bs, i + 2, Len(bs))>>

\* The value of a digit character in the given base, -1 when it is none.
DigitVal(b, base) ==
  LET v == IF b >= 48 /\ b <= 57 THEN b - 48
           ELSE IF b >= 97 /\ b <= 122 THEN b - 87
           ELSE IF b >= 65 /\ b <= 90 THEN b - 55
           ELSE 0 - 1
  IN IF v >= 0 /\ v < base THEN v ELSE 0 - 1

IsSpace(b) == b = 32 \/ (b >= 9 /\ b <= 13)

RECURSIVE LStrip(_)
LStrip(bs) ==
  IF bs # <<>> /\ IsSpace(bs[1]) THEN LStrip(Tail(bs)) ELSE bs

RECURSIVE RStrip(_)
RStrip(bs) ==
  IF bs # <<>> /\ IsSpace(bs[Len(bs)])
    THEN RStrip(SubSeq(bs, 1, Len(bs) - 1)) ELSE bs

\* The digits of an integer literal: digits of the base, single underscores
\* allowed between digits only (and, lead = TRUE, right after a base prefix).
DigitsOk(ds, base, lead) ==
  /\ ds # <<>>
  /\ \A i \in 1..Len(ds) : ds[i] = 95 \/ DigitVal(ds[i], base) >= 0
  /\ ds[Len(ds)] # 95
  /\ lead \/ ds[1] # 95
  /\ \A i \in 1..(Len(ds) - 1) : ~(ds[i] = 95 /\ ds[i + 1] = 95)

RECURSIVE DigitsVal(_, _, _)
DigitsVal(ds, base, acc) ==
  IF ds = <<>> THEN acc
  ELSE IF ds[1] = 95 THEN DigitsVal(Tail(ds), base, acc)
  ELSE DigitsVal(Tail(ds), base, acc * base + DigitVal(ds[1], base))

\* int(x, base), the digits ds that follow the sign and the base prefix;
\* in a base that is no power of two, a text of more than 4300 digits
\* (underscores not counted) exceeds the limit of the integer string
\* conversion of Python: ValueError.
PyIntDigits(ds, base, pre, neg) ==
  IF /\ DigitsOk(ds, base, pre)
     /\ \/ base \in {2, 4, 8, 16, 32}
        \/ Cardinality({i \in 1..Len(ds) : ds[i] # 95}) <= 4300
    THEN LET sig == {i \in 1..Len(ds) : ds[i] \notin {48, 95}}
             \* leading zeros add nothing to the value
             from == IF sig = {} THEN Len(ds)
                     ELSE CHOOSE i \in sig : \A j \in sig : i <= j
             val == DigitsVal(SubSeq(ds, from, Len(ds)), base, 0)
         IN [ok |-> TRUE, val |-> IF neg THEN 0 - val ELSE val]
    ELSE [ok |-> FALSE, val |-> 0]

\* int(x, base), the text u that follows the sign: base 16 accepts a 0x or
\* 0X prefix.
PyIntUnsigned(u, base, neg) ==
  LET pre == base = 16 /\ Len(u) >= 2 /\ u[1] = 48 /\ (u[2] = 120 \/ u[2] = 88)
  IN PyIntDigits(IF pre THEN SubSeq(u, 3, Len(u)) ELSE u, base, pre, neg)

\* int(x, base), the text t stripped of white space: an optional sign.
PyIntSigned(t, base) ==
  PyIntUnsigned(IF t # <<>> /\ (t[1] = 45 \/ t[1] = 43) THEN Tail(t) ELSE t,
                base, t # <<>> /\ t[1] = 45)

\* int(x, base) of Python for base 10 or 16:
\* [ok |-> FALSE] stands for ValueError.
PyInt(bs, base) == PyIntSigned(RStrip(LStrip(bs)), base)

\* The UTF-8 sequence that starts at bs[i], as the strict decoder of
\* bytes.decode() reads it: its length n (0 when it is invalid: a stray
\* continuation byte, a truncated or overlong sequence, a surrogate, a code
\* point above U+10FFFF) and its code point cp.
Utf8Next(bs, i) ==
  LET b0 == bs[i]
      n  == IF b0 < 128 THEN 1
            ELSE IF b0 >= 194 /\ b0 <= 223 THEN 2
            ELSE IF b0 >= 224 /\ b0 <= 239 THEN 3
            ELSE IF b0 >= 240 /\ b0 <= 244 THEN 4
            ELSE 0
      lo == IF b0 = 224 THEN 160 ELSE IF b0 = 240 THEN 144 ELSE 128
      hi == IF b0 = 237 THEN 159 ELSE IF b0 = 244 THEN 143 ELSE 191
      ok == /\ n > 0
            /\ i + n - 1 <= Len(bs)
            /\ n > 1 => (bs[i + 1] >= lo /\ bs[i + 1] <= hi)
            /\ \A k \in 2..(n - 1) : bs[i + k] >= 128 /\ bs[i + k] <= 191
  IN IF ~ok THEN [n |-> 0, cp |-> 0]
     ELSE IF n = 1 THEN [n |-> 1, cp |-> b0]
     ELSE IF n = 2 THEN [n |-> 2, cp |-> (b0 - 192) * 64 + (bs[i + 1] - 128)]
     ELSE IF n = 3
       THEN [n |-> 3, cp |-> (b0 - 224) * 4096 + (bs[i + 1] - 128) * 64
                             + (bs[i + 2] - 128)]
     ELSE [n |-> 4, cp |-> (b0 - 240) * 262144 + (bs[i + 1] - 128) * 4096
                           + (bs[i + 2] - 128) * 64 + (bs[i + 3] - 128)]

RECURSIVE Utf8Decode(_, _, _)
Utf8Decode(bs, i, acc) ==
  IF i > Len(bs) THEN [ok |-> TRUE, cps |-> acc]
  ELSE IF Utf8Next(bs, i).n = 0 THEN [ok |-> FALSE, cps |-> <<>>]
  ELSE Utf8Decode(bs, i + Utf8Next(bs, i).n, Append(acc, Utf8Next(bs, i).cp))

\* bytes.decode(): the code points of the text; [ok |-> FALSE] stands for
\* UnicodeDecodeError.
decode(bs) == Utf8Decode(bs, 1, <<>>)

\* The code points above U+007F for which str.isspace() holds.
UnicodeSpaces ==
  {133, 160, 5760, 8232, 8233, 8239, 8287, 12288} \cup (8192..8202)

\* The code points of the digits zero of the decimal digit sets of Unicode
\* above U+007F; the digits one to nine follow each of them.
DecimalZeros ==
  {1632, 1776, 1984, 2406, 2534, 2662, 2790, 2918, 3046, 3174, 3302, 3430,
   3558, 3664, 3792, 3872, 4160, 4240, 6112, 6160, 6470, 6608, 6784, 6800,
   6992, 7088, 7232, 7248, 42528, 43216, 43264, 43472, 43504, 43600, 44016,
   65296, 66720, 68912, 69734, 69872, 69942, 70096, 70384, 70736, 70864,
   71248, 71360, 71472, 71904, 72016, 72784, 73040, 73120, 92768, 92864,
   93008, 120782, 120792, 120802, 120812, 120822, 123200, 123632, 125264,
   130032}

\* int(text, base) of a str: white space and decimal digits above U+007F
\* are read as a blank and as the ASCII digit, any other code point above
\* U+007F is no digit (`?`); the rest follows the rules of PyInt.
PyIntStr(cps, base) ==
  PyInt([i \in 1..Len(cps) |->
           IF cps[i] < 128 THEN cps[i]
           ELSE IF cps[i] \in UnicodeSpaces THEN 32
           ELSE IF \E z \in DecimalZeros : cps[i] - z \in 0..9
             THEN 48 + cps[i] - (CHOOSE z \in DecimalZeros : cps[i] - z \in 0..9)
           ELSE 63],
        base)

HexDigit(d) == IF d < 10 THEN 48 + d ELSE 87 + d

\* f'{v:02x}' for 0 <= v < 256.
Hex2(v) == <<HexDigit(v \div 16), HexDigit(v % 16)>>

\* f'{v:x}' for v >= 0.
RECURSIVE HexStr(_)
HexStr(v) ==
  IF v < 16 THEN <<HexDigit(v)>> ELSE HexStr(v \div 16) \o <<HexDigit(v % 16)>>

\* str(v) for an integer v.
RECURSIVE DecStr(_)
DecStr(v) ==
  IF v < 0 THEN <<45>> \o DecStr(0 - v)
  ELSE IF v < 10 THEN <<48 + v>>
  ELSE DecStr(v \div 10) \o <<48 + (v % 10)>>

\* hexlify(data).
RECURSIVE Hexlify(_)
Hexlify(data) ==
  IF data = <<>> THEN <<>> ELSE Hex2(data[1]) \o Hexlify(Tail(data))

\* v.to_bytes(n, 'little') for v >= 0: [ok |-> FALSE] is OverflowError.
RECURSIVE ToBytesLittle(_, _)
ToBytesLittle(v, n) ==
  IF n = 0 THEN [ok |-> v = 0, data |-> <<>>]
  ELSE LET r == ToBytesLittle(v \div 256, n - 1)
       IN [ok |-> r.ok, data |-> <<v % 256>> \o r.data]

\* int.from_bytes(data, 'little') & (m - 1), for m a power of two that
\* divides 256: the low bits of the little-endian value.
RECURSIVE FromBytesLittleLow(_, _)
FromBytesLittleLow(data, m) ==
  IF data = <<>> THEN 0
  ELSE (data[1] + 256 * FromBytesLittleLow(Tail(data), m)) % m

(* ------------------------- the texts of the protocol -------------------- *)

CH_T == Bytes(<<"T">>)
COLON == Bytes(<<":">>)
SEMI == Bytes(<<";">>)
HWBREAK_TAIL == Bytes(<<"h", "w", "b", "r", "e", "a", "k", ":", ";">>)
S00 == Bytes(<<"S", "0", "0">>)
CH_S == Bytes(<<"S">>)
XX == Bytes(<<"x", "x">>)
E01 == Bytes(<<"E", "0", "1">>)
H_OPS == Bytes(<<"G", "g", "M", "m", "c">>)
E02 == Bytes(<<"E", "0", "2">>)
OK == Bytes(<<"O", "K">>)
E03 == Bytes(<<"E", "0", "3">>)
QC == Bytes(<<"Q", "C">>)
NONE_TEXT == Bytes(<<"N", "o", "n", "e">>)
HWBREAK_CAP == Bytes(<<"h", "w", "b", "r", "e", "a", "k", "+">>)
PACKET_SIZE ==
  Bytes(<<"P", "a", "c", "k", "e", "t", "S", "i", "z", "e", "=">>)
REVERSE_STEP ==
  Bytes(<<"R", "e", "v", "e", "r", "s", "e", "S", "t", "e", "p", "+">>)
TSTATUS ==
  Bytes(<<"T", "0", ";", "t", "n", "o", "t", "r", "u", "n", ":", "0">>)
CH_m == Bytes(<<"m">>)
CH_l == Bytes(<<"l">>)
CH_0 == Bytes(<<"0">>)
CH_c == Bytes(<<"c">>)
Q_supported == Bytes(<<"s", "u", "p", "p", "o", "r", "t", "e", "d">>)
Q_symbol == Bytes(<<"s", "y", "m", "b", "o", "l">>)
Q_tstatus == Bytes(<<"t", "s", "t", "a", "t", "u", "s">>)
Q_fthreadinfo ==
  Bytes(<<"f", "t", "h", "r", "e", "a", "d", "i", "n", "f", "o">>)
Q_sthreadinfo ==
  Bytes(<<"s", "t", "h", "r", "e", "a", "d", "i", "n", "f", "o">>)
Q_attached == Bytes(<<"a", "t", "t", "a", "c", "h", "e", "d">>)
INTERROGATE ==
  Bytes(<<"i", "n", "t", "e", "r", "r", "o", "g", "a", "t", "e">>)
CMD_bc == Bytes(<<"b", "c">>)
CH_g == Bytes(<<"g">>)
CH_k == Bytes(<<"k">>)
CH_q == Bytes(<<"q">>)
CH_s == Bytes(<<"s">>)
CMD_bs == Bytes(<<"b", "s">>)
CMD__h == Bytes(<<"_", "h">>)
CH_z == Bytes(<<"z">>)
CMD__z == Bytes(<<"_", "z">>)
QUESTION == Bytes(<<"?">>)
UNDERSCORE == Bytes(<<"_">>)
DOLLAR == Bytes(<<"$">>)
HASH == Bytes(<<"#">>)
MINUS == Bytes(<<"-">>)
PLUS == Bytes(<<"+">>)
REVERSE_CONTINUE ==
  Bytes(<<"R", "e", "v", "e", "r", "s", "e", "C", "o", "n", "t", "i", "n", "u", "e", "+">>)
COMMA_B == Ord(",")
SEMI_B == Ord(";")
COLON_B == Ord(":")
DOLLAR_B == Ord("$")
HASH_B == Ord("#")

(* ------------------------- QEMUMemoryController ------------------------ *)

\* range(start, stop) of Python (step 1).
Range(start, stop) == [start |-> start, stop |-> stop]

\* x in rng
InRange(x, rng) == rng.start <= x /\ x < rng.stop

\* rng1 == rng2: ranges compare as the sequences they denote, so that any
\* two empty ranges are equal.
RangeEq(r1, r2) ==
  \/ (r1.stop <= r1.start /\ r2.stop <= r2.start)
  \/ (r1.start = r2.start /\ r1.stop = r2.stop /\ r1.stop > r1.start)

\* QEMUMemoryController.add_memory: banks is the dict as the sequence of
\* its (range, blob) items in insertion order; an equal key is overwritten
\* in place.
add_memory(banks, addr, blob) ==
  LET rng == Range(addr, addr + Len(blob))
      old == {i \in 1..Len(banks) : RangeEq(banks[i].rng, rng)}
  IN IF old = {} THEN Append(banks, [rng |-> rng, data |-> blob])
     ELSE [i \in 1..Len(banks) |->
             IF i \in old THEN [rng |-> banks[i].rng, data |-> blob]
             ELSE banks[i]]

\* A variant of read that fills a short slice with zero bytes up to the
\* requested length.
read_zero_filled(banks, addr, length) ==
  LET hits == {i \in 1..Len(banks) : InRange(addr, banks[i].rng)}
  IN IF hits = {} THEN [data |-> <<>>, exc |-> "IndexError"]
     ELSE LET i      == CHOOSE k \in hits : \A j \in hits : k <= j
              offset == addr - banks[i].rng.start
              part   == PySlice(banks[i].data, offset, offset + length)
          IN [data |-> part \o [k \in 1..(length - Len(part)) |-> 0],
              exc  |-> "None"]

\* QEMUMemoryController.read: exc = "IndexError" when no bank holds addr.
read(banks, addr, length) ==
  LET hits == {i \in 1..Len(banks) : InRange(addr, banks[i].rng)}
  IN IF hits = {} THEN [data |-> <<>>, exc |-> "IndexError"]
     ELSE LET i      == CHOOSE k \in hits : \A j \in hits : k <= j
              offset == addr - banks[i].rng.start
          IN [data |-> PySlice(banks[i].data, offset, offset + length),
              exc  |-> "None"]

(* ------------------------------- QEMUVCPU ------------------------------ *)

\* QEMUVCPU.PC_XPOS
PC_XPOS == 32

\* QEMUVCPU.__init__, then the record() calls of load() appending pcs.
NewVCPU(pcs) == [seq |-> pcs, xpos |-> 0, hwbreaks |-> <<>>]

\* A variant of reset that also forgets the breakpoints of the vCPU.
reset_clear(v) == [v EXCEPT !.xpos = 0, !.hwbreaks = <<>>]

\* QEMUVCPU.reset
reset(v) == [v EXCEPT !.xpos = 0]

\* A variant of _get_instruction_length that takes four bytes only when
\* the two low bits are both set.
_get_instruction_length_low11(banks, at) ==
  LET r == read(banks, at, 4)
  IN IF r.exc = "IndexError" THEN 4
     ELSE IF FromBytesLittleLow(r.data, 4) = 3 THEN 4 ELSE 2

\* QEMUVCPU._get_instruction_length
_get_instruction_length(banks, at) ==
  LET r == read(banks, at, 4)
  IN IF r.exc = "IndexError" THEN 4
     ELSE IF FromBytesLittleLow(r.data, 4) # 0 THEN 4 ELSE 2

\* QEMUVCPU.pc
pc(v, banks) ==
  IF v.xpos < Len(v.seq) THEN v.seq[v.xpos + 1]
  ELSE LET last_pc == v.seq[Len(v.seq)]
       IN last_pc + _get_instruction_length(banks, last_pc)

\* QEMUVCPU.instruction_length
instruction_length(v, banks) == _get_instruction_length(banks, pc(v, banks))

\* A variant of step that blanks the recorded entry it leaves when it moves
\* forward.
step_scribble(v, back) ==
  IF ~back
    THEN [v   |-> [v EXCEPT !.xpos = @ + 1,
                            !.seq = [i \in 1..Len(v.seq) |->
                                       IF i = v.xpos + 1 THEN 0 ELSE v.seq[i]]],
          exc |-> IF v.xpos + 1 >= Len(v.seq) THEN "RuntimeError" ELSE "None"]
    ELSE IF v.xpos > 0 THEN [v |-> [v EXCEPT !.xpos = @ - 1], exc |-> "None"]
         ELSE [v |-> v, exc |-> "RuntimeError"]

\* QEMUVCPU.step: the forward step moves the cursor before it tests it.
step(v, back) ==
  IF ~back
    THEN [v   |-> [v EXCEPT !.xpos = @ + 1],
          exc |-> IF v.xpos + 1 >= Len(v.seq) THEN "RuntimeError" ELSE "None"]
    ELSE IF v.xpos > 0 THEN [v |-> [v EXCEPT !.xpos = @ - 1], exc |-> "None"]
         ELSE [v |-> v, exc |-> "RuntimeError"]

\* QEMUVCPU._move_to, the forward search from position pos.
RECURSIVE move_forward(_, _, _)
move_forward(v, at, pos) ==
  IF pos < Len(v.seq)
    THEN IF v.seq[pos + 1] = at THEN [v |-> [v EXCEPT !.xpos = pos], exc |-> "None"]
         ELSE move_forward(v, at, pos + 1)
    ELSE [v |-> v, exc |-> "ValueError"]

\* QEMUVCPU._move_to, the backward search from position pos: reading
\* seq[pos] at pos >= len(seq) is an IndexError.
RECURSIVE move_backward(_, _, _)
move_backward(v, at, pos) ==
  IF pos >= 0
    THEN IF pos >= Len(v.seq) THEN [v |-> v, exc |-> "IndexError"]
         ELSE IF v.seq[pos + 1] = at
           THEN [v |-> [v EXCEPT !.xpos = pos], exc |-> "None"]
         ELSE move_backward(v, at, pos - 1)
    ELSE [v |-> v, exc |-> "ValueError"]

\* QEMUVCPU._move_to
_move_to(v, at, forward) ==
  IF forward THEN move_forward(v, at, v.xpos) ELSE move_backward(v, at, v.xpos)

\* The first breakpoint of the list that holds at, 0 when there is none.
HitBreak(hwbreaks, at) ==
  LET hits == {i \in 1..Len(hwbreaks) : InRange(at, hwbreaks[i])}
  IN IF hits = {} THEN 0 ELSE CHOOSE k \in hits : \A j \in hits : k <= j

\* A variant of the while loop of cont that tests the breakpoints against
\* the PC read before the step instead of the PC the step arrives at.
RECURSIVE cont_loop_stale(_, _, _, _)
cont_loop_stale(v, banks, back, last_pc) ==
  LET r == step(v, back)
  IN IF r.exc # "None" THEN [v |-> r.v, ret |-> FALSE, exc |-> "None"]
     ELSE LET at == pc(v, banks)
          IN IF <<at>> = last_pc THEN cont_loop_stale(r.v, banks, back, last_pc)
             ELSE IF HitBreak(r.v.hwbreaks, at) # 0
               THEN [v |-> r.v, ret |-> TRUE, exc |-> "None"]
             ELSE cont_loop_stale(r.v, banks, back, <<at>>)

\* QEMUVCPU.cont, the while loop; last_pc is <<>> (None) or <<pc>>.
RECURSIVE cont_loop(_, _, _, _)
cont_loop(v, banks, back, last_pc) ==
  LET r == step(v, back)
  IN IF r.exc # "None" THEN [v |-> r.v, ret |-> FALSE, exc |-> "None"]
     ELSE LET at == pc(r.v, banks)
          IN IF <<at>> = last_pc THEN cont_loop(r.v, banks, back, last_pc)
             ELSE IF HitBreak(r.v.hwbreaks, at) # 0
               THEN [v |-> r.v, ret |-> TRUE, exc |-> "None"]
             ELSE cont_loop(r.v, banks, back, <<at>>)

\* A variant of the body of the while loop of cont in which the `continue`
\* taken on an equal PC also undoes the step.
cont_iteration_stay(v, banks, back, last_pc) ==
  LET r == step(v, back)
  IN IF r.exc # "None"
       THEN [v |-> r.v, last_pc |-> last_pc, done |-> TRUE, ret |-> FALSE]
     ELSE IF <<pc(r.v, banks)>> = last_pc
       THEN [v |-> v, last_pc |-> last_pc, done |-> FALSE, ret |-> FALSE]
     ELSE [v |-> r.v, last_pc |-> <<pc(r.v, banks)>>,
           done |-> HitBreak(r.v.hwbreaks, pc(r.v, banks)) # 0,
           ret |-> HitBreak(r.v.hwbreaks, pc(r.v, banks)) # 0]

\* QEMUVCPU.cont, one pass through the body of the while loop: done when the
\* loop is left (break or return), ret the value returned then.
cont_iteration(v, banks, back, last_pc) ==
  LET r == step(v, back)
  IN IF r.exc # "None"
       THEN [v |-> r.v, last_pc |-> last_pc, done |-> TRUE, ret |-> FALSE]
     ELSE IF <<pc(r.v, banks)>> = last_pc
       THEN [v |-> r.v, last_pc |-> last_pc, done |-> FALSE, ret |-> FALSE]
     ELSE [v |-> r.v, last_pc |-> <<pc(r.v, banks)>>,
           done |-> HitBreak(r.v.hwbreaks, pc(r.v, banks)) # 0,
           ret |-> HitBreak(r.v.hwbreaks, pc(r.v, banks)) # 0]

\* QEMUVCPU._move_to, one pass through the body of its while loop from the
\* position pos: found (the cursor is set to pos), missed (ValueError after
\* the loop), IndexError (seq[pos] past the end), or the next position.
move_iteration(v, at, forward, pos) ==
  IF forward
    THEN IF pos >= Len(v.seq) THEN [end |-> "ValueError", pos |-> pos]
         ELSE IF v.seq[pos + 1] = at THEN [end |-> "found", pos |-> pos]
         ELSE [end |-> "", pos |-> pos + 1]
    ELSE IF pos < 0 THEN [end |-> "ValueError", pos |-> pos]
         ELSE IF pos >= Len(v.seq) THEN [end |-> "IndexError", pos |-> pos]
         ELSE IF v.seq[pos + 1] = at THEN [end |-> "found", pos |-> pos]
         ELSE [end |-> "", pos |-> pos - 1]

\* QEMUVCPU.cont; addr is <<>> (None) or <<address>>.
cont(v, banks, back, addr) ==
  LET m  == IF addr = <<>> THEN [v |-> v, exc |-> "None"]
            ELSE _move_to(v, addr[1], ~back)
      v1 == IF m.exc = "ValueError" THEN [v EXCEPT !.xpos = Len(v.seq)] ELSE m.v
  IN IF m.exc = "IndexError" THEN [v |-> v, ret |-> FALSE, exc |-> "IndexError"]
     ELSE cont_loop(v1, banks, back, <<>>)

\* QEMUVCPU.add_hw_break
add_hw_break(v, addr, length) ==
  LET rng == Range(addr, addr + length)
  IN IF \E i \in 1..Len(v.hwbreaks) : RangeEq(v.hwbreaks[i], rng)
       THEN [v |-> v, exc |-> "ValueError"]
       ELSE [v |-> [v EXCEPT !.hwbreaks = Append(@, rng)], exc |-> "None"]

\* QEMUVCPU.del_hw_break: list.remove drops the first equal element.
del_hw_break(v, addr, length) ==
  LET rng  == Range(addr, addr + length)
      hits == {i \in 1..Len(v.hwbreaks) : RangeEq(v.hwbreaks[i], rng)}
  IN IF hits = {} THEN [v |-> v, exc |-> "ValueError"]
     ELSE LET k == CHOOSE i \in hits : \A j \in hits : i <= j
          IN [v |-> [v EXCEPT !.hwbreaks =
                        SubSeq(@, 1, k - 1) \o SubSeq(@, k + 1, Len(@))],
              exc |-> "None"]

\* QEMUVCPU.regs: 33 optional words, only the last one (the PC) set.
regs(v, banks) == [i \in 1..33 |-> IF i = 33 THEN <<pc(v, banks)>> ELSE <<>>]

(* ----------------------------- QEMUGDBReplay ---------------------------- *)

VARIABLES
  vcpus,             \* _vcpus: hart id -> QEMUVCPU
  banks,             \* _memctrl._banks
  xlen,              \* _xlen
  thread_id,         \* _thread_id: <<>> (None) or <<hart id>>
  select_thread_id,  \* _select_thread_id: <<>> (None) or <<tid>>
  conn,              \* _conn is not None
  no_ack,            \* _no_ack
  buf,               \* the local buffer of _serve
  srv,               \* where the process is: "accept" (blocked in accept),
                     \* "serving" (in the loop of _serve), "aborted" (an
                     \* exception left serve(): main exits with status 1)
  exc,               \* the exception that aborted the server, else "None"
  io,                \* what the last iteration of the _serve loop received,
                     \* scanned, and sent or dispatched, in order
  call               \* the last direct call of a QEMUVCPU method

vars == <<vcpus, banks, xlen, thread_id, select_thread_id, conn, no_ack,
          buf, srv, exc, io, call>>

\* QEMUGDBReplay.MAX_PACKET_LENGTH
MAX_PACKET_LENGTH == 4096

\* QEMUGDBReplay.SIGNALS
SIGNALS == [HUP |-> 1, INT |-> 2, QUIT |-> 3, ILL |-> 4, TRAP |-> 5, ABRT |-> 6]

\* QEMUGDBReplay.xlen: self._xlen or 4
XLen == IF xlen = 0 THEN 4 ELSE xlen

\* sorted(self._vcpus)[0]
FirstHart ==
  IF DOMAIN vcpus = {} THEN "IndexError"
  ELSE CHOOSE h \in DOMAIN vcpus : \A g \in DOMAIN vcpus : h <= g

\* sorted(self._vcpus)
RECURSIVE Sorted(_)
Sorted(S) ==
  IF S = {} THEN <<>>
  ELSE LET m == CHOOSE h \in S : \A g \in S : h <= g
       IN <<m>> \o Sorted(S \ {m})

\* sep.join(parts)
RECURSIVE Join(_, _)
Join(parts, sep) ==
  IF parts = <<>> THEN <<>>
  ELSE IF Len(parts) = 1 THEN parts[1]
  ELSE parts[1] \o sep \o Join(Tail(parts), sep)

\* bytes.lower()
Lower(bs) == [i \in 1..Len(bs) |-> IF bs[i] >= 65 /\ bs[i] <= 90 THEN bs[i] + 32 ELSE bs[i]]

\* a in b, for strings: a is a contiguous part of b.
IsSubstr(a, b) ==
  \E i \in 0..(Len(b) - Len(a)) : SubSeq(b, i + 1, i + Len(a)) = a

\* string.ascii_uppercase
ascii_uppercase == [i \in 1..26 |-> 64 + i]

\* What a handler hands back: the fields of self it may change, its return
\* value resp (<<>> for None, else <<reply text>>) and the exception that
\* left it.
Same == [vcpus |-> vcpus, thread_id |-> thread_id,
         select_thread_id |-> select_thread_id, conn |-> conn,
         resp |-> <<>>, exc |-> "None"]

Reply(text) == [Same EXCEPT !.resp = <<text>>]
Raise(name) == [Same EXCEPT !.exc = name]

\* self._vcpus[self._thread_id] does not raise KeyError.
HasVcpu == thread_id # <<>> /\ thread_id[1] \in DOMAIN vcpus

\* f'T{sig:02x}{vcpu.PC_XPOS:02x}:{spc};' followed by tail, for the vCPU v;
\* to_bytes raises OverflowError when the PC does not fit xlen bytes.
StopReply(r, v, tail) ==
  LET spc == ToBytesLittle(pc(v, banks), XLen)
  IN IF ~spc.ok THEN [r EXCEPT !.exc = "OverflowError"]
     ELSE [r EXCEPT !.resp = <<CH_T \o Hex2(SIGNALS.TRAP) \o Hex2(PC_XPOS)
                               \o COLON \o Hexlify(spc.data)
                               \o SEMI \o tail>>]

\* QEMUGDBReplay._do_interrogate
_do_interrogate(payload) == Reply(S00)

\* What _do_bc and _do_c do with the outcome r of vcpu.cont(): the T reply
\* on a breakpoint, the text missed otherwise.
ContReply(r, missed) ==
  LET s == [Same EXCEPT !.vcpus[thread_id[1]] = r.v]
  IN IF r.exc # "None" THEN [s EXCEPT !.exc = r.exc]
     ELSE IF r.ret THEN StopReply(s, r.v, HWBREAK_TAIL)
     ELSE [s EXCEPT !.resp = <<missed>>]

\* What _do_s and _do_bs do with the outcome r of vcpu.step().
StepReply(r) ==
  LET s == [Same EXCEPT !.vcpus[thread_id[1]] = r.v]
  IN IF r.exc # "None" THEN [s EXCEPT !.exc = r.exc]
     ELSE StopReply(s, r.v, <<>>)

\* QEMUGDBReplay._do_bc
_do_bc(payload) ==
  IF ~HasVcpu THEN Raise("KeyError")
  ELSE ContReply(cont(vcpus[thread_id[1]], banks, TRUE, <<>>), S00)

\* QEMUGDBReplay._do_c: the address is parsed by int(payload), base 10,
\* before the vCPU is looked up.
_do_c(payload) ==
  LET a == PyInt(payload, 10)
  IN IF payload # <<>> /\ ~a.ok THEN Raise("ValueError")
     ELSE IF ~HasVcpu THEN Raise("KeyError")
     ELSE ContReply(cont(vcpus[thread_id[1]], banks, FALSE,
                         IF payload # <<>> THEN <<a.val>> ELSE <<>>),
                    CH_S \o Hex2(SIGNALS.QUIT))

\* One register of the g reply.
RegText(r) ==
  IF r = <<>> THEN [ok |-> TRUE, text |-> Join([i \in 1..XLen |-> XX], <<>>)]
  ELSE LET b == ToBytesLittle(r[1], XLen)
       IN [ok |-> b.ok, text |-> Hexlify(b.data)]

\* QEMUGDBReplay._do_g
_do_g(payload) ==
  IF ~HasVcpu THEN Raise("KeyError")
  ELSE LET rs == regs(vcpus[thread_id[1]], banks)
           ts == [i \in 1..Len(rs) |-> RegText(rs[i])]
       IN IF \E i \in 1..Len(ts) : ~ts[i].ok THEN Raise("OverflowError")
          ELSE Reply(Join([i \in 1..Len(ts) |-> ts[i].text], <<>>))

\* A variant of _do_k that closes the connection and leaves the cursors
\* where they are.
_do_k_keep(payload) == [Same EXCEPT !.conn = FALSE]

\* QEMUGDBReplay._do_k
_do_k(payload) ==
  [Same EXCEPT !.vcpus = [h \in DOMAIN vcpus |-> reset(vcpus[h])],
               !.conn = FALSE]

\* QEMUGDBReplay._do_m
_do_m(payload) ==
  LET parts == Split1(payload, COMMA_B)
      a == PyIntStr(decode(parts[1]).cps, 16)
      n == PyIntStr(decode(parts[2]).cps, 16)
  IN IF ~decode(payload).ok THEN Raise("UnicodeDecodeError")
     ELSE IF Len(parts) # 2 THEN Raise("ValueError")
     ELSE IF ~a.ok \/ ~n.ok THEN Raise("ValueError")
     ELSE LET r == read(banks, a.val, n.val)
          IN IF r.exc = "IndexError" THEN Reply(E01)
             ELSE Reply(Hexlify(r.data))

\* QEMUGDBReplay._do_s
_do_s(payload) ==
  IF ~HasVcpu THEN Raise("KeyError")
  ELSE IF payload = <<>>
    THEN StepReply(step(vcpus[thread_id[1]], FALSE))
    ELSE Reply(E01)

\* QEMUGDBReplay._do_bs
_do_bs(payload) ==
  IF ~HasVcpu THEN Raise("KeyError")
  ELSE StepReply(step(vcpus[thread_id[1]], TRUE))

\* A variant of _do__h that makes a loaded hart named by a positive thread
\* id the operative hart.
_do__h_bind(payload) ==
  LET cmd == PySlice(payload, 0, 1)
      tid == PyInt(PySlice(payload, 1, Len(payload)), 16)
  IN IF IsSubstr(cmd, H_OPS)
       THEN IF ~tid.ok THEN Reply(E01)
            ELSE IF tid.val # 0 - 1 /\ tid.val \notin DOMAIN vcpus
              THEN Reply(E02)
            ELSE IF tid.val <= 0 /\ DOMAIN vcpus = {}
              THEN [Same EXCEPT !.select_thread_id = <<tid.val>>,
                                !.exc = "IndexError"]
            ELSE [Same EXCEPT !.select_thread_id = <<tid.val>>,
                              !.thread_id = IF tid.val <= 0 THEN <<FirstHart>>
                                            ELSE <<tid.val>>,
                              !.resp = <<OK>>]
       ELSE Reply(E03)

\* QEMUGDBReplay._do__h: with no vCPU loaded, sorted(self._vcpus)[0] raises
\* IndexError after _select_thread_id was set.
_do__h(payload) ==
  LET cmd == PySlice(payload, 0, 1)
      tid == PyInt(PySlice(payload, 1, Len(payload)), 16)
  IN IF IsSubstr(cmd, H_OPS)
       THEN IF ~tid.ok THEN Reply(E01)
            ELSE IF tid.val # 0 - 1 /\ tid.val \notin DOMAIN vcpus
              THEN Reply(E02)
            ELSE IF tid.val <= 0 /\ DOMAIN vcpus = {}
              THEN [Same EXCEPT !.select_thread_id = <<tid.val>>,
                                !.exc = "IndexError"]
            ELSE [Same EXCEPT !.select_thread_id = <<tid.val>>,
                              !.thread_id = IF tid.val <= 0 THEN <<FirstHart>> ELSE @,
                              !.resp = <<OK>>]
       ELSE Reply(E03)

\* QEMUGDBReplay._do__z
_do__z(payload, remove) ==
  LET parts == Split(payload, SEMI_B)
      args  == Split(parts[1], COMMA_B)
      ints  == [i \in 1..Len(args) |-> PyInt(args[i], 16)]
  IN IF Len(parts) > 1 THEN Reply(<<>>)
     ELSE IF Len(args) # 3 \/ \E i \in 1..Len(args) : ~ints[i].ok
       THEN Reply(E01)
     ELSE IF ints[1].val # 1 THEN Reply(<<>>)
     ELSE IF ~HasVcpu THEN Raise("KeyError")
     ELSE LET v == vcpus[thread_id[1]]
              r == IF ~remove THEN add_hw_break(v, ints[2].val, ints[3].val)
                   ELSE del_hw_break(v, ints[2].val, ints[3].val)
          IN IF r.exc = "ValueError" THEN Reply(E02)
             ELSE [Same EXCEPT !.vcpus[thread_id[1]] = r.v,
                               !.resp = <<OK>>]

\* QEMUGDBReplay._do_z
_do_z(payload) == _do__z(payload, TRUE)

\* QEMUGDBReplay._do_query_c: f'QC{self._thread_id}'
_do_query_c(payload) ==
  Reply(QC \o
        (IF thread_id = <<>> THEN NONE_TEXT
         ELSE DecStr(thread_id[1])))

\* QEMUGDBReplay._do_query_supported: payload.decode() raises
\* UnicodeDecodeError; cap in ('hwbreak+') tests whether cap is a part of the
\* text hwbreak+.
_do_query_supported(payload) ==
  LET caps == Split(payload, SEMI_B)
      RECURSIVE Supp(_)
      Supp(cs) ==
        IF cs = <<>> THEN <<>>
        ELSE (IF IsSubstr(cs[1], HWBREAK_CAP)
                THEN <<cs[1]>> ELSE <<>>) \o Supp(Tail(cs))
  IN IF ~decode(payload).ok THEN Raise("UnicodeDecodeError")
     ELSE Reply(Join(<<PACKET_SIZE
                         \o HexStr(MAX_PACKET_LENGTH - 16),
                       REVERSE_STEP,
                       REVERSE_CONTINUE>> \o Supp(caps),
                     SEMI))

\* QEMUGDBReplay._do_query_symbol
_do_query_symbol(payload) == Reply(OK)

\* QEMUGDBReplay._do_query_tstatus
_do_query_tstatus(payload) ==
  Reply(TSTATUS)

\* QEMUGDBReplay._do_query_fthreadinfo
_do_query_fthreadinfo(payload) ==
  LET ids == Sorted(DOMAIN vcpus)
  IN Reply(CH_m \o Join([i \in 1..Len(ids) |-> HexStr(ids[i])], SEMI))

\* QEMUGDBReplay._do_query_sthreadinfo
_do_query_sthreadinfo(payload) == Reply(CH_l)

\* QEMUGDBReplay._do_query_attached
_do_query_attached(payload) == Reply(CH_0)

\* QEMUGDBReplay._do_q: parts[0].decode() raises UnicodeDecodeError; no
\* text with a code point above U+007F is the name of a method.
_do_q(payload) ==
  LET parts == Split1(payload, COLON_B)
      name  == Lower(parts[1])
      arg   == IF Len(parts) > 1 THEN parts[2] ELSE <<>>
  IN CASE ~decode(parts[1]).ok -> Raise("UnicodeDecodeError")
       [] name = CH_c -> _do_query_c(arg)
       [] name = Q_supported -> _do_query_supported(arg)
       [] name = Q_symbol -> _do_query_symbol(arg)
       [] name = Q_tstatus -> _do_query_tstatus(arg)
       [] name = Q_fthreadinfo -> _do_query_fthreadinfo(arg)
       [] name = Q_sthreadinfo -> _do_query_sthreadinfo(arg)
       [] name = Q_attached -> _do_query_attached(arg)
       [] OTHER -> Reply(<<>>)

\* The names cmd for which getattr(self, f'_do_{cmd}', None) finds a method.
Handlers ==
  { INTERROGATE,
    CMD_bc, CH_c, CH_g, CH_k,
    CH_q, CH_m, CH_s, CMD_bs,
    CMD__h, CH_z, CMD__z }

\* The method name _handle_request derives from the first clen bytes, as
\* UTF-8 text; bytes(req[0:clen]).decode() raises UnicodeDecodeError.
CmdName(req, clen) ==
  LET c0 == PySlice(req, 0, clen)
      c1 == IF c0 = QUESTION
              THEN INTERROGATE
              ELSE c0
  IN IF ~decode(c0).ok THEN "UnicodeDecodeError"
     ELSE IF IsSubstr(c1, ascii_uppercase) THEN UNDERSCORE \o Lower(c1)
     ELSE c1

\* handler(bytes(req[clen:]))
CallHandler(cmd, payload) ==
  CASE cmd = INTERROGATE -> _do_interrogate(payload)
    [] cmd = CMD_bc -> _do_bc(payload)
    [] cmd = CH_c -> _do_c(payload)
    [] cmd = CH_g -> _do_g(payload)
    [] cmd = CH_k -> _do_k(payload)
    [] cmd = CH_q -> _do_q(payload)
    [] cmd = CH_m -> _do_m(payload)
    [] cmd = CH_s -> _do_s(payload)
    [] cmd = CMD_bs -> _do_bs(payload)
    [] cmd = CMD__h -> _do__h(payload)
    [] cmd = CH_z -> _do_z(payload)
    [] cmd = CMD__z -> _do__z(payload, FALSE)

\* QEMUGDBReplay._handle_request: found is the handler's name, <<>> when the
\* for loop ran out or the decoding of the command raised; the reply is sent
\* when it is not None.
_handle_request(req) ==
  LET raises(n) == ~decode(PySlice(req, 0, n)).ok
      clen == IF raises(1) THEN 0 - 1
              ELSE IF CmdName(req, 1) \in Handlers THEN 1
              ELSE IF raises(2) THEN 0 - 1
              ELSE IF CmdName(req, 2) \in Handlers THEN 2
              ELSE 0
  IN IF clen < 0 THEN [found |-> <<>>, r |-> Raise("UnicodeDecodeError")]
     ELSE IF clen = 0 THEN [found |-> <<>>, r |-> Reply(<<>>)]
     ELSE [found |-> <<CmdName(req, clen)>>,
           r     |-> CallHandler(CmdName(req, clen), PySlice(req, clen, Len(req)))]

\* QEMUGDBReplay._send_bytes: the frame put on the wire for a payload.
_send_bytes(payload) ==
  DOLLAR \o payload \o HASH \o Hex2(Sum(payload) % 256)

(* ------------------------------ load phase ----------------------------- *)

\* The memory blob of the reference session: the words 0x00000517 and
\* 0x00050513 at 0x1000.
Blob1 == <<23, 5, 0, 0, 19, 5, 5, 0>>

\* The inputs of the load phase the model starts from: the recorded PCs of
\* each hart (load) and the raw blobs with their addresses (load_bin); the
\* last one is main run without a trace, which serves with no vCPU.
Configs ==
  { [trace |-> (0 :> <<4096, 4098, 4102>>),
     blobs |-> << <<4096, Blob1>> >>],
    [trace |-> (0 :> <<4096, 4096, 4102>>) @@ (1 :> <<4098, 4102>>),
     blobs |-> <<>>],
    [trace |-> (1 :> <<4096, 4098, 4102, 4102>>) @@ (2 :> <<4102>>),
     blobs |-> << <<4096, Blob1>> >>],
    [trace |-> <<>>, blobs |-> << <<4096, Blob1>> >>] }

\* QEMUGDBReplay.load_bin, for each blob in turn.
RECURSIVE load_bin(_, _)
load_bin(bks, blobs) ==
  IF blobs = <<>> THEN bks
  ELSE load_bin(add_memory(bks, blobs[1][1], blobs[1][2]), Tail(blobs))

\* QEMUGDBReplay.load: one vCPU per hart of the log, its PCs recorded in
\* order, every cursor reset.
load(trace) == [h \in DOMAIN trace |-> reset(NewVCPU(trace[h]))]

NoIO == [data |-> <<>>, seen |-> <<>>, out |-> <<>>]
NoCall == [op |-> "none", hart |-> 0, back |-> FALSE, addr |-> <<>>,
           before |-> NewVCPU(<<>>), ret |-> FALSE, exc |-> "None"]

\* QEMUGDBReplay.__init__ and the load phase of main, up to serve(); load
\* is called with a trace only (load of no hart stands for no call).
Init ==
  \E c \in Configs :
    /\ vcpus = load(c.trace)
    /\ banks = load_bin(<<>>, c.blobs)
    /\ xlen = 4
    /\ thread_id = <<>>
    /\ select_thread_id = <<>>
    /\ conn = FALSE
    /\ no_ack = FALSE
    /\ buf = <<>>
    /\ srv = "accept"
    /\ exc = "None"
    /\ io = NoIO
    /\ call = NoCall

(* ------------------------------ the client ----------------------------- *)

\* A frame as a client puts it on the wire, with a right checksum.
Frame(p) == Bytes(<<"$">>) \o p \o Bytes(<<"#">>) \o Hex2(Sum(p) % 256)

\* The same frame with a wrong checksum.
BadFrame(p) == Bytes(<<"$">>) \o p \o Bytes(<<"#">>) \o Hex2((Sum(p) + 1) % 256)

\* The command payloads the model's client sends.
Cmds ==
  { Bytes(<<"?">>), Bytes(<<"g">>), Bytes(<<"s">>), Bytes(<<"b", "s">>),
    Bytes(<<"c">>), Bytes(<<"b", "c">>), Bytes(<<"k">>),
    Bytes(<<"H", "g", "0">>), Bytes(<<"H", "g", "1">>), Bytes(<<"H", "c", "-", "1">>),
    Bytes(<<"Z", "1", ",", "1", "0", "0", "6", ",", "2">>),
    Bytes(<<"z", "1", ",", "1", "0", "0", "6", ",", "2">>),
    Bytes(<<"Z", "1", ",", "1", "0", "0", "a", ",", "2">>),
    Bytes(<<"Z", "1", ",", "x">>),
    Bytes(<<"m", "1", "0", "0", "0", ",", "4">>),
    Bytes(<<"m", "2", "0", "0", "0", ",", "4">>),
    Bytes(<<"m", "1", "0", "0", "0">>),
    Bytes(<<"c", "4", "0", "9", "8">>),
    Bytes(<<"c", "z">>),
    Bytes(<<"s", "1">>),
    Bytes(<<"q", "C">>),
    Bytes(<<"X">>),
    <<255>>,
    <<>> }

\* What one receive call returns when every frame arrives whole and alone.
Chunks == {Frame(p) : p \in Cmds}

\* What one receive call may return otherwise: a frame with a wrong
\* checksum, two frames at once, a frame and the start of the next, a frame
\* after an acknowledgement byte, and the pieces of a frame cut in two.
WireChunks ==
  { Frame(Bytes(<<"H", "g", "0">>)), Frame(Bytes(<<"s">>)),
    Frame(Bytes(<<"q", "C">>)),
    BadFrame(Bytes(<<"s">>)), BadFrame(Bytes(<<"H", "g", "0">>)),
    BadFrame(Bytes(<<"q", "C">>)),
    Frame(Bytes(<<"H", "g", "0">>)) \o Frame(Bytes(<<"s">>)),
    Frame(Bytes(<<"q", "C">>)) \o Frame(Bytes(<<"?">>)),
    Frame(Bytes(<<"?">>)) \o Bytes(<<"$", "q">>),
    Bytes(<<"+">>) \o Frame(Bytes(<<"?">>)),
    Bytes(<<"$", "q", "C">>), Bytes(<<"#", "9">>), Bytes(<<"4">>),
    Bytes(<<"C", "#", "9", "4">>) }

(* ------------------------------ the server ----------------------------- *)

Ev(t, data) == [t |-> t, data |-> data]

\* QEMUGDBReplay.serve: accept() returns a connection and _serve starts
\* with an empty buffer.
Accept ==
  /\ srv = "accept"
  /\ srv' = "serving"
  /\ conn' = TRUE
  /\ buf' = <<>>
  /\ io' = NoIO
  /\ UNCHANGED <<vcpus, banks, xlen, thread_id, select_thread_id, no_ack, exc, call>>

\* The cursors stay within the overshoot the model follows.
Within(vs) == \A h \in DOMAIN vs : vs[h].xpos <= Len(vs[h].seq) + MaxOvershoot

\* The reply frame _send_bytes hands to conn.send() after the handler's
\* outcome r: none when the handler raised, returned None or dropped the
\* connection.
ReplyOf(r) ==
  IF r.exc = "None" /\ r.resp # <<>> /\ r.conn
    THEN <<_send_bytes(r.resp[1])>> ELSE <<>>

\* QEMUGDBReplay._serve, the end of an iteration: the ack, then
\* _handle_request(req), whose outcome is r; buf is cut out of req. Every
\* call of the socket may raise OSError: conn.send() of the ack, conn.send()
\* of the reply in _send_bytes, conn.shutdown() in _do_k (after the vCPUs
\* were reset, before self._conn is cleared). The OSError leaves _serve and
\* `except OSError: break` of serve leaves the accept loop.
Handle(data, b1, req, end, ack, r) ==
  /\ buf' = PySlice(req, end + 3, Len(req))
  /\ \/ /\ io' = [data |-> data, seen |-> b1,
                  out |-> ack \o <<Ev("dispatch", req)>> \o
                          [i \in 1..Len(ReplyOf(r)) |-> Ev("send", ReplyOf(r)[i])]]
        /\ vcpus' = r.vcpus
        /\ Within(vcpus')
        /\ thread_id' = r.thread_id
        /\ select_thread_id' = r.select_thread_id
        /\ conn' = r.conn
        /\ exc' = r.exc
        /\ srv' = IF r.exc # "None" THEN "aborted"
                  ELSE IF ~r.conn THEN "accept"
                  ELSE "serving"
     \/ /\ ack # <<>>
        /\ io' = [data |-> data, seen |-> b1,
                  out |-> <<Ev("send raises OSError", ack[1].data)>>]
        /\ srv' = "stopped"
        /\ UNCHANGED <<vcpus, thread_id, select_thread_id, conn, exc>>
     \/ /\ ReplyOf(r) # <<>>
        /\ io' = [data |-> data, seen |-> b1,
                  out |-> ack \o <<Ev("dispatch", req),
                                   Ev("send raises OSError", ReplyOf(r)[1])>>]
        /\ vcpus' = r.vcpus
        /\ Within(vcpus')
        /\ thread_id' = r.thread_id
        /\ select_thread_id' = r.select_thread_id
        /\ srv' = "stopped"
        /\ UNCHANGED <<conn, exc>>
     \/ /\ r.exc = "None" /\ conn /\ ~r.conn
        /\ io' = [data |-> data, seen |-> b1,
                  out |-> ack \o <<Ev("dispatch", req),
                                   Ev("shutdown raises OSError", <<>>)>>]
        /\ vcpus' = r.vcpus
        /\ srv' = "stopped"
        /\ UNCHANGED <<thread_id, select_thread_id, conn, exc>>

\* QEMUGDBReplay._serve, from the request cut out of the buffer on: int()
\* of the checksum text raises ValueError when it is no hexadecimal number.
Decode(data, b1, req, end, crc) ==
  IF ~crc.ok
    THEN /\ buf' = b1
         /\ io' = [data |-> data, seen |-> b1, out |-> <<>>]
         /\ srv' = "aborted"
         /\ exc' = "ValueError"
         /\ UNCHANGED <<vcpus, thread_id, select_thread_id, conn>>
    ELSE Handle(data, b1, req, end,
                IF no_ack THEN <<>>
                ELSE IF Sum(req) % 256 # crc.val THEN <<Ev("send", MINUS)>>
                ELSE <<Ev("send", PLUS)>>,
                _handle_request(req).r)

\* QEMUGDBReplay._serve, from buf.extend(data) on: b1 is the buffer; the
\* iteration ends early while no `$`, no `#` after it or no byte after the
\* `#` is there.
Scan(data, b1, start, end) ==
  IF start < 0 \/ end < 0 \/ Len(b1) - end < 2
    THEN /\ Len(b1) <= MaxBuf
         /\ buf' = b1
         /\ io' = [data |-> data, seen |-> b1, out |-> <<>>]
         /\ UNCHANGED <<vcpus, thread_id, select_thread_id, conn, srv, exc>>
    ELSE Decode(data, b1, PySlice(b1, start + 1, end), end,
                PyInt(PySlice(b1, end + 1, end + 3), 16))

\* buf.find(b'#', start), reached only when start >= 0.
FindEnd(b1, start) == IF start < 0 THEN 0 - 1 ELSE Find(b1, HASH_B, start)

\* QEMUGDBReplay._serve: one iteration of the loop in which recv returned
\* the non-empty data, up to the end of _handle_request.
Recv(data) ==
  /\ srv = "serving"
  /\ conn
  /\ Scan(data, buf \o data, Find(buf \o data, DOLLAR_B, 0),
          FindEnd(buf \o data, Find(buf \o data, DOLLAR_B, 0)))
  /\ UNCHANGED <<banks, xlen, no_ack, call>>

Next ==
  \/ Accept
  \/ \E data \in Chunks : Recv(data)

Spec == Init /\ [][Next]_vars

\* The same server fed with the byte stream cut at arbitrary places.
NextWire ==
  \/ Accept
  \/ \E data \in WireChunks : Recv(data)

SpecWire == Init /\ [][NextWire]_vars

(* ------------------ a session that negotiates the ack mode ------------- *)

Q_START_NO_ACK_MODE ==
  Bytes(<<"Q", "S", "t", "a", "r", "t", "N", "o", "A", "c", "k", "M", "o", "d", "e">>)

\* The payloads of a client that asks for the supported features, naming
\* the no-ack mode, switches the acknowledgements off and goes on.
AckCmds ==
  { CH_q \o Bytes(<<"S", "u", "p", "p", "o", "r", "t", "e", "d", ":">>)
         \o Q_START_NO_ACK_MODE \o PLUS,
    Q_START_NO_ACK_MODE,
    Bytes(<<"H", "g", "0">>), Bytes(<<"H", "g", "1">>),
    Bytes(<<"s">>), Bytes(<<"b", "s">>), Bytes(<<"c">>),
    Bytes(<<"Z", "1", ",", "1", "0", "0", "6", ",", "2">>),
    Bytes(<<"?">>), Bytes(<<"q", "C">>) }

AckChunks == {Frame(p) : p \in AckCmds} \cup {BadFrame(Bytes(<<"?">>))}

NextAck ==
  \/ Accept
  \/ \E data \in AckChunks : Recv(data)

SpecAck == Init /\ [][NextAck]_vars

(* ---------------- frames of every payload, sent and received ----------- *)

\* The longest payload the model frames.
MaxPayload == 3

\* The bytes the payloads are made of: the two framing characters, a
\* command letter, a digit.
PayloadBytes == {Ord("$"), Ord("#"), Ord("s"), Ord("0")}

Payloads ==
  UNION {[1..n -> PayloadBytes] : n \in 0..MaxPayload}

\* What _send_bytes puts on the wire for each payload is what recv returns.
NextFraming ==
  \/ Accept
  \/ \E p \in Payloads : Recv(_send_bytes(p))

SpecFraming == Init /\ [][NextFraming]_vars

(* --------------------- a session with its socket events ---------------- *)

\* The command payloads of the sessions that also see the socket time out,
\* reach end of stream or fail.
SessionCmds ==
  { Bytes(<<"H", "g", "0">>), Bytes(<<"H", "g", "-", "1">>),
    Bytes(<<"H", "g", "1">>), Bytes(<<"H", "g", "2">>),
    Bytes(<<"H", "x", "0">>),
    Bytes(<<"s">>), Bytes(<<"c">>), Bytes(<<"k">>), Bytes(<<"q", "C">>),
    Bytes(<<"Z", "1", ",", "1", "0", "0", "6", ",", "2">>),
    Bytes(<<"z", "1", ",", "1", "0", "0", "6", ",", "2">>),
    Bytes(<<"Z", "1", ",", "1", "0", "0", "6", ",", "0">>),
    Bytes(<<"Z", "1", ",", "1", "0", "0", "a", ",", "0">>),
    Bytes(<<"z", "1", ",", "1", "0", "0", "a", ",", "0">>),
    Bytes(<<"_", "h", "g", "0">>), Bytes(<<"_">>), Bytes(<<"X">>),
    Bytes(<<"1">>), Bytes(<<"q", "X", "y", "z">>), <<>>,
    <<255>>, Bytes(<<"q">>) \o <<255>> }

SessionChunks == {Frame(p) : p \in SessionCmds}

\* The last recv() returned b'': the peer has closed the connection, and a
\* stream socket that reported end of stream reports it ever after.
PeerClosed == io.out = <<Ev("eof", <<>>)>>

\* QEMUGDBReplay._serve: recv raises TimeoutError; the loop continues.
RecvTimeout ==
  /\ srv = "serving"
  /\ conn
  /\ ~PeerClosed
  /\ io' = [data |-> <<>>, seen |-> buf, out |-> <<Ev("TimeoutError", <<>>)>>]
  /\ UNCHANGED <<vcpus, banks, xlen, thread_id, select_thread_id, conn, no_ack,
                 buf, srv, exc, call>>

\* QEMUGDBReplay._serve: recv returns b'' (end of stream); `if not data:
\* continue` goes on with the loop.
RecvEof ==
  /\ srv = "serving"
  /\ conn
  /\ ~PeerClosed
  /\ io' = [data |-> <<>>, seen |-> buf, out |-> <<Ev("eof", <<>>)>>]
  /\ UNCHANGED <<vcpus, banks, xlen, thread_id, select_thread_id, conn, no_ack,
                 buf, srv, exc, call>>

\* QEMUGDBReplay._serve and serve: recv raises an OSError that is no
\* timeout; it leaves _serve, and `except OSError: break` of serve leaves
\* the accept loop, so that serve returns.
RecvError ==
  /\ srv = "serving"
  /\ conn
  /\ ~PeerClosed
  /\ io' = [data |-> <<>>, seen |-> buf, out |-> <<Ev("OSError", <<>>)>>]
  /\ srv' = "stopped"
  /\ UNCHANGED <<vcpus, banks, xlen, thread_id, select_thread_id, conn, no_ack,
                 buf, exc, call>>

NextSession ==
  \/ Accept
  \/ \E data \in SessionChunks : ~PeerClosed /\ Recv(data)
  \/ RecvTimeout
  \/ RecvEof
  \/ RecvError

\* The server with the events of its socket.
SpecSession == Init /\ [][NextSession]_vars

\* The same with its fairness: the server's thread is never stopped for
\* ever, and a server that waits in accept() gets a client. A _serve loop
\* that polls a closed connection keeps running, but changes nothing.
SpecSessionFair == SpecSession /\ WF_vars(Accept)

(* ------------------- direct use of the QEMUVCPU methods ---------------- *)

\* The addresses the model passes to cont() and to the breakpoint methods:
\* recorded PCs, the PC past the end of the reference trace, and one that is
\* never recorded.
Addrs == {4096, 4098, 4102, 4106, 4100}

\* The breakpoint ranges (address, length) the model inserts and removes.
BreakArgs == {<<4102, 2>>, <<4106, 2>>}

Called(op, h, back, addr, ret, e) ==
  [op |-> op, hart |-> h, back |-> back, addr |-> addr, before |-> vcpus[h],
   ret |-> ret, exc |-> e]

\* vcpu.step(back)
VStep(h, back) ==
  LET r == step(vcpus[h], back)
  IN /\ vcpus' = [vcpus EXCEPT ![h] = r.v]
     /\ Within(vcpus')
     /\ call' = Called("step", h, back, <<>>, FALSE, r.exc)
     /\ UNCHANGED <<banks, xlen, thread_id, select_thread_id, conn, no_ack,
                    buf, srv, exc, io>>

\* vcpu.cont(back, addr)
VCont(h, back, addr) ==
  LET r == cont(vcpus[h], banks, back, addr)
  IN /\ vcpus' = [vcpus EXCEPT ![h] = r.v]
     /\ Within(vcpus')
     /\ call' = Called("cont", h, back, addr, r.ret, r.exc)
     /\ UNCHANGED <<banks, xlen, thread_id, select_thread_id, conn, no_ack,
                    buf, srv, exc, io>>

\* vcpu.add_hw_break(addr, length)
VAddBreak(h, addr, length) ==
  LET r == add_hw_break(vcpus[h], addr, length)
  IN /\ vcpus' = [vcpus EXCEPT ![h] = r.v]
     /\ call' = Called("add_hw_break", h, FALSE, <<addr>>, FALSE, r.exc)
     /\ UNCHANGED <<banks, xlen, thread_id, select_thread_id, conn, no_ack,
                    buf, srv, exc, io>>

\* vcpu.del_hw_break(addr, length)
VDelBreak(h, addr, length) ==
  LET r == del_hw_break(vcpus[h], addr, length)
  IN /\ vcpus' = [vcpus EXCEPT ![h] = r.v]
     /\ call' = Called("del_hw_break", h, FALSE, <<addr>>, FALSE, r.exc)
     /\ UNCHANGED <<banks, xlen, thread_id, select_thread_id, conn, no_ack,
                    buf, srv, exc, io>>

\* vcpu.reset()
VReset(h) ==
  /\ vcpus' = [vcpus EXCEPT ![h] = reset(vcpus[h])]
  /\ call' = Called("reset", h, FALSE, <<>>, FALSE, "None")
  /\ UNCHANGED <<banks, xlen, thread_id, select_thread_id, conn, no_ack,
                 buf, srv, exc, io>>

NextVCPU ==
  \/ \E h \in DOMAIN vcpus, back \in BOOLEAN : VStep(h, back)
  \/ \E h \in DOMAIN vcpus, back \in BOOLEAN, a \in Addrs : VCont(h, back, <<a>>)
  \/ \E h \in DOMAIN vcpus, back \in BOOLEAN : VCont(h, back, <<>>)
  \/ \E h \in DOMAIN vcpus, b \in BreakArgs : VAddBreak(h, b[1], b[2])
  \/ \E h \in DOMAIN vcpus, b \in BreakArgs : VDelBreak(h, b[1], b[2])
  \/ \E h \in DOMAIN vcpus : VReset(h)

\* The vCPUs of a loaded trace driven through their methods.
SpecVCPU == Init /\ [][NextVCPU]_vars

(* ----------------------------- the load phase -------------------------- *)

\* The number of banks the load phase of the model fills.
MaxBanks == 2

\* The ELF files of the model, each as what ElfBlob reports of it: the
\* address width in bits, the load address and the payload.
Elfs ==
  { [address_size |-> 32, load_address |-> 4096, blob |-> Blob1],
    [address_size |-> 32, load_address |-> 4104, blob |-> <<9, 0, 0, 0>>],
    [address_size |-> 64, load_address |-> 4096, blob |-> Blob1] }

\* The raw binaries of the model with their addresses: one that follows
\* Blob1 without a gap, one inside Blob1, an empty one.
Bins == { <<4104, <<0, 1>>>>, <<4100, <<2, 1>>>>, <<4106, <<>>>> }

\* The execution logs of the model: the recorded PCs of each hart; the empty
\* one holds no execution trace.
Traces ==
  { (0 :> <<4096, 4104>>), (1 :> <<4100>>) @@ (2 :> <<4096, 4105>>), <<>> }

\* QEMUGDBReplay.load_elf with the memory banks bks and _xlen x.
load_elf(bks, x, e) ==
  IF x = 0
    THEN [banks |-> add_memory(bks, e.load_address, e.blob),
          xlen |-> e.address_size \div 8, exc |-> "None"]
  ELSE IF e.address_size # x * 8
    THEN [banks |-> bks, xlen |-> x, exc |-> "ValueError"]
  ELSE [banks |-> add_memory(bks, e.load_address, e.blob),
        xlen |-> x, exc |-> "None"]

\* QEMUGDBReplay.__init__, as main calls it.
InitLoad ==
  /\ vcpus = <<>>
  /\ banks = <<>>
  /\ xlen = 4
  /\ thread_id = <<>>
  /\ select_thread_id = <<>>
  /\ conn = FALSE
  /\ no_ack = FALSE
  /\ buf = <<>>
  /\ srv = "load_elf"
  /\ exc = "None"
  /\ io = NoIO
  /\ call = NoCall

\* main: gdbr.load_elf(elf) for one of args.elf; an exception ends main.
LoadElf(e) ==
  LET r == load_elf(banks, xlen, e)
  IN /\ srv = "load_elf"
     /\ Len(banks) < MaxBanks
     /\ banks' = r.banks
     /\ xlen' = r.xlen
     /\ exc' = r.exc
     /\ srv' = IF r.exc = "None" THEN "load_elf" ELSE "stopped"
     /\ call' = [NoCall EXCEPT !.op = "load_elf", !.addr = <<e.address_size>>,
                               !.exc = r.exc]
     /\ UNCHANGED <<vcpus, thread_id, select_thread_id, conn, no_ack, buf, io>>

\* main: gdbr.load_bin(addr, blob) for one of zip(args.address, args.bin).
LoadBin(b) ==
  /\ srv \in {"load_elf", "load_bin"}
  /\ Len(banks) < MaxBanks
  /\ banks' = load_bin(banks, <<b>>)
  /\ srv' = "load_bin"
  /\ call' = [NoCall EXCEPT !.op = "load_bin", !.addr = <<b[1]>>]
  /\ UNCHANGED <<vcpus, xlen, thread_id, select_thread_id, conn, no_ack, buf,
                 exc, io>>

\* main: if args.trace: gdbr.load(args.trace), args.trace being <<>> (no -t
\* option: load is not called and main goes on to serve with no vCPU) or
\* <<trace>>; a log without a trace ends main.
LoadTrace(arg) ==
  /\ srv \in {"load_elf", "load_bin"}
  /\ IF arg = <<>>
       THEN /\ srv' = "loaded"
            /\ call' = NoCall
            /\ UNCHANGED <<vcpus, exc>>
       ELSE IF DOMAIN arg[1] = {}
       THEN /\ srv' = "stopped"
            /\ exc' = "RuntimeError"
            /\ call' = [NoCall EXCEPT !.op = "load", !.exc = "RuntimeError"]
            /\ UNCHANGED vcpus
       ELSE /\ srv' = "loaded"
            /\ vcpus' = load(arg[1])
            /\ call' = [NoCall EXCEPT !.op = "load"]
            /\ UNCHANGED exc
  /\ UNCHANGED <<banks, xlen, thread_id, select_thread_id, conn, no_ack, buf, io>>

\* The addresses and lengths the model reads: below, inside, at the end of
\* and past the banks.
ReadAddrs == {4095, 4096, 4100, 4103, 4104, 4105, 4106, 4108}
ReadLens == {0, 1, 2, 4, 9}

\* The m commands of the model: payload, address and length.
MCmds ==
  { [p |-> Bytes(<<"1", "0", "0", "0", ",", "4">>), addr |-> 4096, n |-> 4],
    [p |-> Bytes(<<"1", "0", "0", "4", ",", "9">>), addr |-> 4100, n |-> 9],
    [p |-> Bytes(<<"1", "0", "0", "7", ",", "2">>), addr |-> 4103, n |-> 2],
    [p |-> Bytes(<<"1", "0", "0", "8", ",", "0">>), addr |-> 4104, n |-> 0],
    [p |-> Bytes(<<"1", "0", "0", "9", ",", "4">>), addr |-> 4105, n |-> 4],
    [p |-> Bytes(<<"f", "f", "f", ",", "1">>), addr |-> 4095, n |-> 1],
    [p |-> Bytes(<<"1", "0", "0", "c", ",", "1">>), addr |-> 4108, n |-> 1],
    [p |-> Bytes(<<"1", "0", "0", "0", ",">>) \o <<217, 164>>,
     addr |-> 4096, n |-> 4],
    [p |-> <<194, 160>> \o Bytes(<<"1", "0", "0", "0", ",", "4">>),
     addr |-> 4096, n |-> 4] }

CalledMem(op, args, ret, e) ==
  [NoCall EXCEPT !.op = op, !.addr = args, !.ret = ret, !.exc = e]

\* self._memctrl.read(addr, length)
MRead(addr, length) ==
  LET r == read(banks, addr, length)
  IN /\ srv = "loaded"
     /\ call' = CalledMem("read", <<addr, length>>, r.data, r.exc)
     /\ UNCHANGED <<vcpus, banks, xlen, thread_id, select_thread_id, conn,
                    no_ack, buf, srv, exc, io>>

\* self._do_m(payload)
DoM(c) ==
  LET r == _do_m(c.p)
  IN /\ srv = "loaded"
     /\ call' = CalledMem("_do_m", <<c.addr, c.n>>, r.resp, r.exc)
     /\ UNCHANGED <<vcpus, banks, xlen, thread_id, select_thread_id, conn,
                    no_ack, buf, srv, exc, io>>

\* vcpu._get_instruction_length(pc)
VLength(h, at) ==
  /\ srv = "loaded"
  /\ call' = Called("_get_instruction_length", h, FALSE, <<at>>,
                    _get_instruction_length(banks, at), "None")
  /\ UNCHANGED <<vcpus, banks, xlen, thread_id, select_thread_id, conn,
                 no_ack, buf, srv, exc, io>>

\* vcpu.pc
VPc(h) ==
  /\ srv = "loaded"
  /\ call' = Called("pc", h, FALSE, <<>>, pc(vcpus[h], banks), "None")
  /\ UNCHANGED <<vcpus, banks, xlen, thread_id, select_thread_id, conn,
                 no_ack, buf, srv, exc, io>>

NextLoad ==
  \/ \E e \in Elfs : LoadElf(e)
  \/ \E b \in Bins : LoadBin(b)
  \/ \E a \in {<<>>} \cup {<<t>> : t \in Traces} : LoadTrace(a)
  \/ \E a \in ReadAddrs, n \in ReadLens : MRead(a, n)
  \/ \E c \in MCmds : DoM(c)
  \/ \E h \in DOMAIN vcpus, a \in ReadAddrs : VLength(h, a)
  \/ \E h \in DOMAIN vcpus : VPc(h)
  \/ \E h \in DOMAIN vcpus : srv = "loaded" /\ VStep(h, FALSE)
  \/ \E h \in DOMAIN vcpus, back \in BOOLEAN : srv = "loaded" /\ VCont(h, back, <<>>)

\* The load phase of main, then the loaded object used through its methods.
SpecLoad == InitLoad /\ [][NextLoad]_vars

(* ------------------------ traces with PCs of any width ----------------- *)

\* A Python integer of any size >= 0, as the sequence of its base-256 digits,
\* the least significant first and the most significant not zero (0 is <<>>);
\* the PCs of the traces of this section are such integers.
RECURSIVE WideOf(_)
WideOf(v) == IF v = 0 THEN <<>> ELSE <<v % 256>> \o WideOf(v \div 256)

\* The value of a wide integer of at most three digits.
RECURSIVE WideValue(_)
WideValue(d) == IF d = <<>> THEN 0 ELSE d[1] + 256 * WideValue(Tail(d))

\* d + k for a wide integer d and 0 <= k < 256.
RECURSIVE WideAdd(_, _)
WideAdd(d, k) ==
  IF k = 0 THEN d
  ELSE IF d = <<>> THEN <<k>>
  ELSE <<(d[1] + k) % 256>> \o WideAdd(Tail(d), (d[1] + k) \div 256)

\* a < b for wide integers.
WideLess(a, b) ==
  \/ Len(a) < Len(b)
  \/ /\ Len(a) = Len(b)
     /\ \E i \in 1..Len(a) :
          a[i] < b[i] /\ \A j \in (i + 1)..Len(a) : a[j] = b[j]

\* d.to_bytes(n, 'little'): [ok |-> FALSE] is OverflowError.
WideToBytes(d, n) ==
  [ok |-> Len(d) <= n, data |-> d \o [i \in 1..(n - Len(d)) |-> 0]]

\* QEMUVCPU._get_instruction_length at a wide address; the banks of the model
\* lie below 2^24, so that read raises IndexError at an address of more than
\* three digits.
_get_instruction_length_wide(bks, at) ==
  IF Len(at) <= 3 THEN _get_instruction_length(bks, WideValue(at)) ELSE 4

\* QEMUVCPU.pc
pc_wide(v, bks) ==
  IF v.xpos < Len(v.seq) THEN v.seq[v.xpos + 1]
  ELSE LET last_pc == v.seq[Len(v.seq)]
       IN WideAdd(last_pc, _get_instruction_length_wide(bks, last_pc))

\* pc in one of the ranges hwbreaks, each a range(addr, addr + length) with
\* length > 0.
HitBreakWide(hwbreaks, at) ==
  \E i \in 1..Len(hwbreaks) :
    ~WideLess(at, hwbreaks[i].start) /\ WideLess(at, hwbreaks[i].stop)

\* QEMUVCPU.add_hw_break(addr, length) with length > 0.
add_hw_break_wide(v, addr, length) ==
  LET rng == Range(addr, WideAdd(addr, length))
  IN IF \E i \in 1..Len(v.hwbreaks) : v.hwbreaks[i] = rng
       THEN [v |-> v, exc |-> "ValueError"]
       ELSE [v |-> [v EXCEPT !.hwbreaks = Append(@, rng)], exc |-> "None"]

\* QEMUVCPU.cont(back), the while loop.
RECURSIVE cont_loop_wide(_, _, _, _)
cont_loop_wide(v, bks, back, last_pc) ==
  LET r == step(v, back)
  IN IF r.exc # "None" THEN [v |-> r.v, ret |-> FALSE, exc |-> "None"]
     ELSE IF <<pc_wide(r.v, bks)>> = last_pc
       THEN cont_loop_wide(r.v, bks, back, last_pc)
     ELSE IF HitBreakWide(r.v.hwbreaks, pc_wide(r.v, bks))
       THEN [v |-> r.v, ret |-> TRUE, exc |-> "None"]
     ELSE cont_loop_wide(r.v, bks, back, <<pc_wide(r.v, bks)>>)

\* f'T{sig:02x}{vcpu.PC_XPOS:02x}:{spc};' followed by tail, for the vCPU v.
StopReplyWide(r, v, tail) ==
  IF ~WideToBytes(pc_wide(v, banks), XLen).ok
    THEN [r EXCEPT !.exc = "OverflowError"]
    ELSE [r EXCEPT !.resp =
            <<CH_T \o Hex2(SIGNALS.TRAP) \o Hex2(PC_XPOS) \o COLON
                   \o Hexlify(WideToBytes(pc_wide(v, banks), XLen).data)
                   \o SEMI \o tail>>]

\* QEMUGDBReplay._do_s with an empty payload, and _do_bs.
_do_s_wide(back) ==
  LET r == step(vcpus[thread_id[1]], back)
      s == [Same EXCEPT !.vcpus[thread_id[1]] = r.v]
  IN IF r.exc # "None" THEN [s EXCEPT !.exc = r.exc]
     ELSE StopReplyWide(s, r.v, <<>>)

\* QEMUGDBReplay._do_c with an empty payload, and _do_bc.
_do_c_wide(back) ==
  LET r == cont_loop_wide(vcpus[thread_id[1]], banks, back, <<>>)
      s == [Same EXCEPT !.vcpus[thread_id[1]] = r.v]
  IN IF r.ret THEN StopReplyWide(s, r.v, HWBREAK_TAIL)
     ELSE [s EXCEPT !.resp = <<IF back THEN S00
                               ELSE CH_S \o Hex2(SIGNALS.QUIT)>>]

\* QEMUGDBReplay._do_g: 32 registers without a value, then the PC.
_do_g_wide ==
  IF ~WideToBytes(pc_wide(vcpus[thread_id[1]], banks), XLen).ok
    THEN Raise("OverflowError")
    ELSE Reply(Join([i \in 1..PC_XPOS |-> Join([k \in 1..XLen |-> XX], <<>>)], <<>>)
               \o Hexlify(WideToBytes(pc_wide(vcpus[thread_id[1]], banks), XLen).data))

\* The logs of this section: PCs around 2^32, one trace that ends 4 bytes
\* below 2^32, one with 32-bit PCs in a loaded bank.
WideConfigs ==
  { [trace |-> (0 :> <<WideOf(4096), <<254, 255, 255, 255>>, <<0, 0, 0, 0, 1>>,
                       <<2, 0, 0, 0, 1>>>>),
     blobs |-> <<>>],
    [trace |-> (0 :> <<<<248, 255, 255, 255>>, <<252, 255, 255, 255>>>>),
     blobs |-> <<>>],
    [trace |-> (0 :> <<WideOf(4096), WideOf(4098), WideOf(4102)>>),
     blobs |-> << <<4096, Blob1>> >>] }

\* The addresses of the breakpoints of this section.
WideBreaks == {<<0, 0, 0, 0, 1>>, WideOf(4102)}

\* QEMUGDBReplay.__init__ and the load phase of main, then a session in
\* which the client has selected the hart 0 (Hg0).
InitWide ==
  \E c \in WideConfigs :
    /\ vcpus = load(c.trace)
    /\ banks = load_bin(<<>>, c.blobs)
    /\ xlen = 4
    /\ thread_id = <<0>>
    /\ select_thread_id = <<0>>
    /\ conn = TRUE
    /\ no_ack = FALSE
    /\ buf = <<>>
    /\ srv = "serving"
    /\ exc = "None"
    /\ io = NoIO
    /\ call = NoCall

\* One of the handlers is called for the selected hart; r is its outcome.
Handled(op, r) ==
  /\ vcpus' = r.vcpus
  /\ Within(vcpus')
  /\ call' = [NoCall EXCEPT !.op = op, !.hart = thread_id[1],
                            !.before = vcpus[thread_id[1]],
                            !.addr = r.resp, !.exc = r.exc]
  /\ UNCHANGED <<banks, xlen, thread_id, select_thread_id, conn, no_ack, buf,
                 srv, exc, io>>

WideS ==
  /\ srv = "serving"
  /\ Handled("_do_s", _do_s_wide(FALSE))

WideBs ==
  /\ srv = "serving"
  /\ Handled("_do_bs", _do_s_wide(TRUE))

WideC ==
  /\ srv = "serving"
  /\ Handled("_do_c", _do_c_wide(FALSE))

WideBc ==
  /\ srv = "serving"
  /\ Handled("_do_bc", _do_c_wide(TRUE))

WideG ==
  /\ srv = "serving"
  /\ Handled("_do_g", _do_g_wide)

\* vcpu.add_hw_break(addr, 2) for the selected hart, as _do__z calls it.
WideAddBreak(addr) ==
  LET r == add_hw_break_wide(vcpus[thread_id[1]], addr, 2)
  IN /\ srv = "serving"
     /\ r.exc = "None"
     /\ Handled("add_hw_break", [Same EXCEPT !.vcpus[thread_id[1]] = r.v])

NextWide ==
  \/ WideS
  \/ WideBs
  \/ WideC
  \/ WideBc
  \/ WideG
  \/ \E a \in WideBreaks : WideAddBreak(a)

SpecWide == InitWide /\ [][NextWide]_vars

(* --------------------- cont, one loop iteration at a time -------------- *)

\* The logs of this section: a trace that is one run of equal PCs, a trace
\* with runs at both ends, and the reference trace with its memory.
ContConfigs ==
  { [trace |-> (0 :> <<4102, 4102, 4102, 4102>>)
               @@ (1 :> <<4096, 4096, 4098, 4102, 4102>>),
     blobs |-> <<>>],
    [trace |-> (0 :> <<4096, 4098, 4102>>),
     blobs |-> << <<4096, Blob1>> >>] }

InitCont ==
  \E c \in ContConfigs :
    /\ vcpus = load(c.trace)
    /\ banks = load_bin(<<>>, c.blobs)
    /\ xlen = 4
    /\ thread_id = <<>>
    /\ select_thread_id = <<>>
    /\ conn = FALSE
    /\ no_ack = FALSE
    /\ buf = <<>>
    /\ srv = "accept"
    /\ exc = "None"
    /\ io = NoIO
    /\ call = NoCall

\* A call of cont has started and has not returned.
Running == call.op = "cont" /\ call.at # "done"

\* vcpu.cont(back, addr) is called: call is the activation of the method,
\* with where it is (at: the search of _move_to, the while loop, returned),
\* the locals pos of _move_to and last_pc of cont, and the cursors at which
\* the equal-PC `continue` was taken.
ContCall(h, back, addr) ==
  /\ ~Running
  /\ vcpus[h].xpos < Len(vcpus[h].seq) + MaxOvershoot
  /\ call' = [op |-> "cont", hart |-> h, back |-> back, addr |-> addr,
              before |-> vcpus[h], ret |-> FALSE, exc |-> "None",
              at |-> IF addr = <<>> THEN "loop" ELSE "move",
              pos |-> vcpus[h].xpos, last_pc |-> <<>>, skips |-> {}]
  /\ UNCHANGED <<vcpus, banks, xlen, thread_id, select_thread_id, conn, no_ack,
                 buf, srv, exc, io>>

\* One pass through the loop of _move_to, and the except clause of cont.
MoveIter ==
  /\ Running
  /\ call.at = "move"
  /\ LET v == vcpus[call.hart]
         m == move_iteration(v, call.addr[1], ~call.back, call.pos)
     IN /\ vcpus' = [vcpus EXCEPT ![call.hart].xpos =
                       IF m.end = "found" THEN m.pos
                       ELSE IF m.end = "ValueError" THEN Len(v.seq)
                       ELSE @]
        /\ call' = [call EXCEPT !.pos = m.pos,
                                !.at = IF m.end = "" THEN "move"
                                       ELSE IF m.end = "IndexError" THEN "done"
                                       ELSE "loop",
                                !.exc = IF m.end = "IndexError" THEN "IndexError"
                                        ELSE "None"]
  /\ UNCHANGED <<banks, xlen, thread_id, select_thread_id, conn, no_ack, buf,
                 srv, exc, io>>

\* One pass through the while loop of cont.
ContIter ==
  /\ Running
  /\ call.at = "loop"
  /\ LET r == cont_iteration(vcpus[call.hart], banks, call.back, call.last_pc)
     IN /\ vcpus' = [vcpus EXCEPT ![call.hart] = r.v]
        /\ call' = [call EXCEPT !.last_pc = r.last_pc,
                                !.at = IF r.done THEN "done" ELSE "loop",
                                !.ret = r.ret,
                                !.skips = IF ~r.done /\ r.last_pc = call.last_pc
                                            THEN @ \cup {r.v.xpos} ELSE @]
  /\ UNCHANGED <<banks, xlen, thread_id, select_thread_id, conn, no_ack, buf,
                 srv, exc, io>>

NextCont ==
  \/ \E h \in DOMAIN vcpus, back \in BOOLEAN : ContCall(h, back, <<>>)
  \/ \E h \in DOMAIN vcpus, back \in BOOLEAN, a \in Addrs : ContCall(h, back, <<a>>)
  \/ MoveIter
  \/ ContIter
  \/ \E h \in DOMAIN vcpus, b \in BreakArgs : ~Running /\ VAddBreak(h, b[1], b[2])
  \/ \E h \in DOMAIN vcpus, back \in BOOLEAN : ~Running /\ VStep(h, back)

SpecCont == InitCont /\ [][NextCont]_vars

\* A call that has started goes on running until it returns.
SpecContFair == SpecCont /\ WF_vars(MoveIter) /\ WF_vars(ContIter)

(* ------------------------- the wire, as specified ---------------------- *)

\* The first complete frame of the byte string b as the protocol defines
\* it: `$`, the payload up to the next `#`, and two checksum characters.
\* next is the 0-based index of the byte that follows the frame.
FrameAt(b) ==
  LET start == Find(b, DOLLAR_B, 0)
      end   == IF start < 0 THEN 0 - 1 ELSE Find(b, HASH_B, start)
  IN IF start < 0 \/ end < 0 \/ Len(b) < end + 3
       THEN [ok |-> FALSE, req |-> <<>>, cc |-> <<>>, next |-> 0]
       ELSE [ok |-> TRUE, req |-> SubSeq(b, start + 2, end),
             cc |-> SubSeq(b, end + 2, end + 3), next |-> end + 3]

\* The complete frames of b, in order.
RECURSIVE WireFrames(_)
WireFrames(b) ==
  LET f == FrameAt(b)
  IN IF ~f.ok THEN <<>>
     ELSE <<f>> \o WireFrames(SubSeq(b, f.next + 1, Len(b)))

\* The bytes of b that follow its last complete frame.
RECURSIVE WireRest(_)
WireRest(b) ==
  LET f == FrameAt(b)
  IN IF ~f.ok THEN b ELSE WireRest(SubSeq(b, f.next + 1, Len(b)))

\* The checksum of frame f equals sum(payload) mod 256.
ChecksumOk(f) ==
  LET c == PyInt(f.cc, 16) IN c.ok /\ c.val = Sum(f.req) % 256

\* The events of one loop iteration, by kind.
IsAck(e) == e.t = "send" /\ (e.data = PLUS \/ e.data = MINUS)
IsReply(e) == e.t = "send" /\ ~IsAck(e)
IsDispatch(e) == e.t = "dispatch"

Dispatched(out) == SelectSeq(out, IsDispatch)
Replies(out) == SelectSeq(out, IsReply)
Acks(out) == SelectSeq(out, IsAck)

\* A call of the socket raised OSError in the loop iteration: the reply, or
\* the ack, could not be delivered.
SocketRaised(out) ==
  \E i \in 1..Len(out) :
    out[i].t \in {"send raises OSError", "shutdown raises OSError"}

\* The T reply that reports the PC at as the stop location.
StopText(at) ==
  CH_T \o Hex2(SIGNALS.TRAP) \o Hex2(PC_XPOS) \o COLON
       \o Hexlify(ToBytesLittle(at, XLen).data) \o SEMI

(* -------------------------------- claims ------------------------------- *)

\* C1: whatever framed commands the client sends, the server never aborts
\* on an unhandled error; it stays in its serving loop.
C1_NeverAborts == srv # "aborted"

\* C2: in every reachable state the cursor of every hart lies between 0 and
\* len(seq).
C2_CursorInBounds ==
  \A h \in DOMAIN vcpus : 0 <= vcpus[h].xpos /\ vcpus[h].xpos <= Len(vcpus[h].seq)

\* C3: in ack mode a frame whose checksum is wrong is answered by `-` alone:
\* it is not dispatched, gets no payload reply, and changes no cursor,
\* breakpoint set or thread selection.
C3_BadChecksumDropped ==
  [][ (~no_ack /\ ~SocketRaised(io'.out) /\ Len(WireFrames(io'.seen)) = 1
               /\ ~ChecksumOk(WireFrames(io'.seen)[1]))
      => /\ io'.out = <<Ev("send", MINUS)>>
         /\ vcpus' = vcpus
         /\ thread_id' = thread_id
         /\ select_thread_id' = select_thread_id ]_vars

\* C4: every complete frame received is dispatched once, in arrival order,
\* also when several arrive in one receive call, and the bytes that follow
\* the last complete frame stay in the buffer.
C4_EveryFrameDispatched ==
  (srv = "serving" /\ WireFrames(io.seen) # <<>>)
    => /\ Len(Dispatched(io.out)) = Len(WireFrames(io.seen))
       /\ \A i \in 1..Len(WireFrames(io.seen)) :
            Dispatched(io.out)[i].data = WireFrames(io.seen)[i].req
       /\ buf = WireRest(io.seen)

\* C5: in ack mode every received frame gets exactly one ack byte, `+` when
\* its checksum matches and `-` otherwise, sent before the frame is handled
\* and replied to.
C5_OneAckPerFrame ==
  (srv = "serving" /\ ~no_ack)
    => /\ Len(Acks(io.out)) = Len(WireFrames(io.seen))
       /\ \A i \in 1..Len(WireFrames(io.seen)) :
            Acks(io.out)[i].data =
              IF ChecksumOk(WireFrames(io.seen)[i]) THEN PLUS ELSE MINUS
       /\ \A i \in 1..Len(io.out) :
            ~IsAck(io.out[i]) => (i > 1 /\ (IsAck(io.out[i - 1]) \/ IsDispatch(io.out[i - 1])))

\* C6: whenever cont returns true, in either direction and with or without
\* a resume address, the PC of the hart after the call lies in one of the
\* breakpoint ranges the hart holds.
C6_BreakpointIdentity ==
  (call.op = "cont" /\ call.ret)
    => \E i \in 1..Len(vcpus[call.hart].hwbreaks) :
         InRange(pc(vcpus[call.hart], banks), vcpus[call.hart].hwbreaks[i])

\* C6 witness: a backward continue with a resume address has returned true.
C6_Witness ==
  /\ call.op = "cont" /\ call.ret /\ call.back /\ call.addr # <<>>
  /\ vcpus[call.hart].xpos # call.before.xpos

\* C7: a forward continue never leaves the cursor below where it started,
\* and a backward continue never leaves it above.
C7_ContMonotone ==
  (call.op = "cont" /\ call.exc = "None")
    => IF call.back THEN vcpus[call.hart].xpos <= call.before.xpos
       ELSE vcpus[call.hart].xpos >= call.before.xpos

\* C8: from any cursor k with 0 < k < len(seq), step(false) then step(true)
\* both succeed and restore k, and so do step(true) then step(false).
C8_StepInverse ==
  \A h \in DOMAIN vcpus :
    (0 < vcpus[h].xpos /\ vcpus[h].xpos < Len(vcpus[h].seq))
      => LET f  == step(vcpus[h], FALSE)
             fb == step(f.v, TRUE)
             b  == step(vcpus[h], TRUE)
             bf == step(b.v, FALSE)
         IN /\ f.exc = "None" /\ fb.exc = "None" /\ fb.v.xpos = vcpus[h].xpos
            /\ b.exc = "None" /\ bf.exc = "None" /\ bf.v.xpos = vcpus[h].xpos

\* C9: with a hart selected, `s` and `bs` are always answered by a T05
\* reply that reports the current PC, also when the step runs off the end
\* or the start of the trace.
C9_StepAnswered ==
  (thread_id # <<>> /\ Dispatched(io.out) # <<>> /\ ~SocketRaised(io.out)
     /\ Dispatched(io.out)[1].data \in {CH_s, CMD_bs})
    => /\ srv = "serving"
       /\ Len(Replies(io.out)) = 1
       /\ Replies(io.out)[1].data =
            _send_bytes(StopText(pc(vcpus[thread_id[1]], banks)))

\* C10: from the start of a session on, the selected hart is the smallest
\* loaded hart id, and qC reports it (in the sessions that have a hart).
C10_DefaultHart ==
  /\ (DOMAIN vcpus # {} /\ srv = "serving") => thread_id = <<FirstHart>>
  /\ (DOMAIN vcpus # {} /\ Dispatched(io.out) # <<>> /\ ~SocketRaised(io.out)
        /\ Dispatched(io.out)[1].data = Bytes(<<"q", "C">>))
       => Replies(io.out) = <<Ev("send", _send_bytes(QC \o DecStr(FirstHart)))>>

\* The breakpoint commands of SessionCmds: payload, whether it removes, and
\* the (addr, len) it names.
BreakCmds ==
  { [p |-> Bytes(<<"Z", "1", ",", "1", "0", "0", "6", ",", "2">>),
     remove |-> FALSE, addr |-> 4102, len |-> 2],
    [p |-> Bytes(<<"z", "1", ",", "1", "0", "0", "6", ",", "2">>),
     remove |-> TRUE, addr |-> 4102, len |-> 2],
    [p |-> Bytes(<<"Z", "1", ",", "1", "0", "0", "6", ",", "0">>),
     remove |-> FALSE, addr |-> 4102, len |-> 0],
    [p |-> Bytes(<<"Z", "1", ",", "1", "0", "0", "a", ",", "0">>),
     remove |-> FALSE, addr |-> 4106, len |-> 0],
    [p |-> Bytes(<<"z", "1", ",", "1", "0", "0", "a", ",", "0">>),
     remove |-> TRUE, addr |-> 4106, len |-> 0] }

\* The positions of the list hwbreaks that hold exactly (addr, len).
Holding(hwbreaks, addr, len) ==
  {i \in 1..Len(hwbreaks) :
     hwbreaks[i].start = addr /\ hwbreaks[i].stop = addr + len}

\* The list without its element at position k.
Without(hwbreaks, k) ==
  SubSeq(hwbreaks, 1, k - 1) \o SubSeq(hwbreaks, k + 1, Len(hwbreaks))

\* C11: with a hart selected, Z1,addr,len replies E02 and changes nothing
\* exactly when the identical (addr, len) is in the hart's set and otherwise
\* inserts it and replies OK; z1,addr,len removes it and replies OK exactly
\* when it is in the set and otherwise replies E02 and changes nothing; this
\* for every len >= 0, len = 0 included.
C11_BreakpointExact ==
  [][ \A c \in BreakCmds :
        (thread_id # <<>> /\ srv = "serving" /\ ~PeerClosed
           /\ io'.data = Frame(c.p) /\ Dispatched(io'.out) # <<>> /\ ~SocketRaised(io'.out))
        => LET h   == thread_id[1]
               old == vcpus[h].hwbreaks
               in  == Holding(old, c.addr, c.len)
               ok  == <<Ev("send", _send_bytes(OK))>>
               e02 == <<Ev("send", _send_bytes(E02))>>
           IN IF c.remove
                THEN IF in # {}
                       THEN /\ Replies(io'.out) = ok
                            /\ \E k \in in : vcpus'[h].hwbreaks = Without(old, k)
                       ELSE /\ Replies(io'.out) = e02
                            /\ vcpus'[h].hwbreaks = old
                ELSE IF in # {}
                       THEN /\ Replies(io'.out) = e02
                            /\ vcpus'[h].hwbreaks = old
                       ELSE /\ Replies(io'.out) = ok
                            /\ vcpus'[h].hwbreaks =
                                 Append(old, Range(c.addr, c.addr + c.len)) ]_vars

\* The PC of hart h lies in one of the breakpoint ranges of the hart.
AtBreak(h) ==
  \E i \in 1..Len(vcpus[h].hwbreaks) :
    InRange(pc(vcpus[h], banks), vcpus[h].hwbreaks[i])

\* The T reply of a continue that stopped hart h on a breakpoint.
HitText(h) == StopText(pc(vcpus[h], banks)) \o HWBREAK_TAIL

\* C12: `c` is answered by the T05 ... hwbreak:; reply when the forward
\* continue stopped on a breakpoint inside the trace and by S03 when it ran
\* off the end; `bc` by the same T05 reply on a breakpoint and by S00 with
\* the cursor at 0 otherwise. The hart is the smallest loaded one, in the
\* sessions that have a hart.
C12_ContinueReplies ==
  /\ (DOMAIN vcpus # {} /\ Dispatched(io.out) # <<>> /\ ~SocketRaised(io.out)
        /\ Dispatched(io.out)[1].data = CH_c)
       => /\ srv = "serving"
          /\ Len(Replies(io.out)) = 1
          /\ \/ /\ Replies(io.out)[1].data = _send_bytes(HitText(FirstHart))
                /\ AtBreak(FirstHart)
                /\ vcpus[FirstHart].xpos < Len(vcpus[FirstHart].seq)
             \/ /\ Replies(io.out)[1].data = _send_bytes(CH_S \o Hex2(3))
                /\ vcpus[FirstHart].xpos >= Len(vcpus[FirstHart].seq)
  /\ (DOMAIN vcpus # {} /\ Dispatched(io.out) # <<>> /\ ~SocketRaised(io.out)
        /\ Dispatched(io.out)[1].data = CMD_bc)
       => /\ srv = "serving"
          /\ Len(Replies(io.out)) = 1
          /\ \/ /\ Replies(io.out)[1].data = _send_bytes(HitText(FirstHart))
                /\ AtBreak(FirstHart)
             \/ /\ Replies(io.out)[1].data = _send_bytes(S00)
                /\ vcpus[FirstHart].xpos = 0

\* C13: when `k` has been handled the cursor of every hart is 0, the
\* connection is closed and discarded, and nothing but the ack was sent.
C13_Kill ==
  (Dispatched(io.out) # <<>> /\ ~SocketRaised(io.out) /\ Dispatched(io.out)[1].data = CH_k)
    => /\ \A h \in DOMAIN vcpus : vcpus[h].xpos = 0
       /\ ~conn
       /\ exc = "None"
       /\ Replies(io.out) = <<>>

\* C13 witness: `k` was handled in a session that had selected a hart and
\* set a breakpoint, with two harts loaded.
C13_Witness ==
  /\ Dispatched(io.out) # <<>> /\ ~SocketRaised(io.out) /\ Dispatched(io.out)[1].data = CH_k
  /\ thread_id # <<>>
  /\ Cardinality(DOMAIN vcpus) = 2
  /\ \E h \in DOMAIN vcpus : vcpus[h].hwbreaks # <<>>

\* C14: whenever the client has disconnected (recv reported end of stream)
\* or `k` has closed the connection, the server eventually is back at
\* accept.
C14_BackToAccept ==
  ((srv = "serving" /\ PeerClosed) \/ (srv # "accept" /\ ~conn)) ~> (srv = "accept")

\* C15: a socket error on the client connection ends the session only, the
\* server being back at accept; a receive timeout only causes another poll.
C15_SocketErrorEndsSessionOnly ==
  /\ io.out = <<Ev("OSError", <<>>)>> => srv = "accept"
  /\ io.out = <<Ev("TimeoutError", <<>>)>> => srv = "serving"

\* The H commands of SessionCmds: payload, whether the op is one of
\* c, g, G, m, M, and the thread id.
HCmds ==
  { [p |-> Bytes(<<"H", "g", "0">>), op |-> TRUE, tid |-> 0],
    [p |-> Bytes(<<"H", "g", "-", "1">>), op |-> TRUE, tid |-> 0 - 1],
    [p |-> Bytes(<<"H", "g", "1">>), op |-> TRUE, tid |-> 1],
    [p |-> Bytes(<<"H", "g", "2">>), op |-> TRUE, tid |-> 2],
    [p |-> Bytes(<<"H", "x", "0">>), op |-> FALSE, tid |-> 0] }

\* C16: H<op><tid> with op in c, g, G, m, M and tid <= 0 replies OK, sets
\* the selector and binds the operative hart to the smallest loaded hart
\* id, whatever harts are loaded; with a positive tid it replies OK and sets
\* the selector when the hart is loaded and replies E02 and changes nothing
\* otherwise; any other op replies E03 and changes nothing. The sessions
\* are those that have a hart.
C16_ThreadSelection ==
  [][ \A c \in HCmds :
        (DOMAIN vcpus # {} /\ srv = "serving" /\ ~PeerClosed
           /\ io'.data = Frame(c.p) /\ Dispatched(io'.out) # <<>> /\ ~SocketRaised(io'.out))
        => LET same == /\ vcpus' = vcpus
                       /\ thread_id' = thread_id
                       /\ select_thread_id' = select_thread_id
               sent(text) == Replies(io'.out) = <<Ev("send", _send_bytes(text))>>
           IN IF ~c.op THEN sent(E03) /\ same
              ELSE IF c.tid <= 0
                THEN /\ sent(OK)
                     /\ thread_id' = <<FirstHart>>
                     /\ select_thread_id' = <<c.tid>>
                     /\ vcpus' = vcpus
              ELSE IF c.tid \in DOMAIN vcpus
                THEN /\ sent(OK)
                     /\ select_thread_id' = <<c.tid>>
                     /\ thread_id' = thread_id
                     /\ vcpus' = vcpus
              ELSE sent(E02) /\ same ]_vars

\* No two banks hold a common address.
NonOverlapping ==
  \A i, j \in 1..Len(banks) :
    i # j => \A a \in banks[i].rng.start..(banks[i].rng.stop - 1) :
               ~InRange(a, banks[j].rng)

\* The banks that hold the address a.
Holders(a) ==
  {i \in 1..Len(banks) :
     banks[i].rng.start <= a /\ a < banks[i].rng.start + Len(banks[i].data)}

\* bank[a - base : min(a - base + n, len)] of the bank i.
BankBytes(i, a, n) ==
  LET off  == a - banks[i].rng.start
      rest == Len(banks[i].data) - off
  IN [k \in 1..(IF n < rest THEN n ELSE rest) |-> banks[i].data[off + k]]

\* C17: with non-overlapping banks, read(addr, n) with addr inside a bank
\* returns exactly the bytes of that bank from addr on, n of them or fewer
\* when the bank ends before, never bytes of another bank nor zero bytes
\* added; when no bank holds addr it raises IndexError, and the m command
\* replies the hex text of the same bytes, E01 when no bank holds addr.
C17_MemoryRead ==
  (NonOverlapping /\ call.op \in {"read", "_do_m"}) =>
    LET a == call.addr[1]
        n == call.addr[2]
    IN IF Holders(a) = {}
         THEN IF call.op = "read" THEN call.exc = "IndexError"
              ELSE call.exc = "None" /\ call.ret = <<E01>>
         ELSE \A i \in Holders(a) :
                /\ call.exc = "None"
                /\ call.ret = IF call.op = "read" THEN BankBytes(i, a, n)
                              ELSE <<Hexlify(BankBytes(i, a, n))>>

\* A read of 9 bytes at 4100 that ends with Blob1 at 4104, where the next
\* bank starts.
C17_Witness ==
  /\ call.op = "read"
  /\ call.addr = <<4100, 9>>
  /\ call.ret = <<19, 5, 5, 0>>
  /\ NonOverlapping
  /\ \E i \in 1..Len(banks) : banks[i].rng = Range(4104, 4106)

\* The little-endian value of the bytes data.
RECURSIVE LittleEndian(_)
LittleEndian(data) ==
  IF data = <<>> THEN 0 ELSE data[1] + 256 * LittleEndian(Tail(data))

\* The length the instruction at the address a has: 4 when no bank holds a,
\* else by the two low bits of the up to 4 bytes of the first bank holding a.
LengthAt(a) ==
  IF Holders(a) = {} THEN 4
  ELSE LET i == CHOOSE k \in Holders(a) : \A j \in Holders(a) : k <= j
       IN IF LittleEndian(BankBytes(i, a, 4)) % 4 = 0 THEN 2 ELSE 4

\* C18: _get_instruction_length(pc) is 2 when the little-endian value of the
\* up to 4 bytes read at a mapped pc has its two low bits 00 and 4 otherwise,
\* and 4 without an exception at an unmapped pc; pc and cont never raise,
\* and past the end of the trace pc is the last recorded PC plus that length.
C18_InstructionLength ==
  /\ call.op = "_get_instruction_length" =>
       call.exc = "None" /\ call.ret = LengthAt(call.addr[1])
  /\ call.op \in {"pc", "cont"} => call.exc = "None"
  /\ (call.op = "pc" /\ call.before.xpos >= Len(call.before.seq)) =>
       LET last == call.before.seq[Len(call.before.seq)]
       IN call.ret = last + LengthAt(last)

\* The length of the instruction 00 01 at 4104, the first bytes of a bank.
C18_Witness ==
  /\ call.op = "_get_instruction_length"
  /\ call.addr = <<4104>>
  /\ Holders(4104) # {}
  /\ call.ret = 2

\* C19: after load_elf of an object file, _xlen is the address width of
\* that file in bytes, 4 for a 32-bit file and 8 for a 64-bit file, and the
\* load goes on; while no object file is loaded, _xlen is 4.
C19_AddressWidth ==
  /\ call.op = "load_elf" =>
       /\ call.exc = "None"
       /\ srv # "stopped"
       /\ xlen = call.addr[1] \div 8
  /\ banks = <<>> /\ call.op # "load_elf" => xlen = 4

\* The payloads of SessionCmds that begin with none of the commands
\* ?, g, m, s, bs, c, bc, k, H, Z, z, q.
UnknownCmds ==
  { <<>>, Bytes(<<"X">>), Bytes(<<"1">>), Bytes(<<"_">>),
    Bytes(<<"_", "h", "g", "0">>), <<255>> }

\* C20: a frame whose payload begins with no recognized command is answered
\* with exactly one frame of empty payload and changes no cursor, no
\* breakpoint list and no thread selection; a q query of unknown name is
\* answered with an empty payload too.
C20_UnknownCommand ==
  [][ \A p \in UnknownCmds \cup {Bytes(<<"q", "X", "y", "z">>)} :
        (srv = "serving" /\ ~PeerClosed
           /\ io'.data = Frame(p) /\ Dispatched(io'.out) # <<>>
           /\ ~SocketRaised(io'.out))
        => /\ Replies(io'.out) = <<Ev("send", _send_bytes(<<>>))>>
           /\ vcpus' = vcpus
           /\ thread_id' = thread_id
           /\ select_thread_id' = select_thread_id ]_vars

\* C21: the acknowledgements are on when a session starts; the client
\* switches them off with QStartNoAckMode, which is answered OK; once they
\* are off a received frame is answered by its reply alone, without + or -.
C21_AckNegotiation ==
  [][ /\ (srv = "accept" /\ srv' = "serving") => ~no_ack'
      /\ (srv = "serving" /\ io'.data = Frame(Q_START_NO_ACK_MODE)
            /\ Dispatched(io'.out) # <<>> /\ ~SocketRaised(io'.out))
         => /\ no_ack'
            /\ Replies(io'.out) = <<Ev("send", _send_bytes(OK))>>
      /\ (srv = "serving" /\ no_ack /\ Dispatched(io'.out) # <<>> /\ ~SocketRaised(io'.out))
         => /\ Acks(io'.out) = <<>>
            /\ Replies(io'.out) # <<>> ]_vars

\* C22: for every payload p, the bytes `$` and `#` included, _send_bytes
\* produces `$` p `#` and the two lowercase hex digits of sum(p) mod 256,
\* and the receive loop fed with it recovers exactly p, with a checksum
\* that matches (the frame is acknowledged with + and p is dispatched).
C22_FramingRoundTrip ==
  [][ \A p \in Payloads :
        (srv = "serving" /\ buf = <<>> /\ io'.data = _send_bytes(p)
           /\ ~SocketRaised(io'.out))
        => /\ Len(io'.data) = Len(p) + 4
           /\ io'.data[1] = DOLLAR_B
           /\ PySlice(io'.data, 1, Len(p) + 1) = p
           /\ io'.data[Len(p) + 2] = HASH_B
           /\ PyInt(PySlice(io'.data, Len(p) + 2, Len(p) + 4), 16)
                = [ok |-> TRUE, val |-> Sum(p) % 256]
           /\ Dispatched(io'.out) = <<Ev("dispatch", p)>>
           /\ Acks(io'.out) = <<Ev("send", PLUS)>> ]_vars

\* C23: once the load phase is over, no command changes the memory banks,
\* the bytes of a bank, the harts or the recorded sequence of a hart; only
\* cursors, breakpoints, the thread selection and the connection change.
C23_LoadedDataFrozen ==
  [][ /\ banks' = banks
      /\ DOMAIN vcpus' = DOMAIN vcpus
      /\ \A h \in DOMAIN vcpus : vcpus'[h].seq = vcpus[h].seq ]_vars

\* A command has just been served while a cursor is off the start, a
\* breakpoint is set and a bank is loaded.
C23_Witness ==
  /\ Dispatched(io.out) # <<>> /\ ~SocketRaised(io.out)
  /\ banks # <<>>
  /\ \E h \in DOMAIN vcpus : vcpus[h].xpos > 0 /\ vcpus[h].hwbreaks # <<>>

\* C24: from a cursor c <= len(seq), step(False) moves the cursor to c + 1
\* without an error whenever c < len(seq), the last entry included, and
\* raises only at c = len(seq); step(True) moves it to c - 1 when c > 0 and
\* raises at c = 0.
C24_StepBounds ==
  (call.op = "step" /\ call.before.xpos <= Len(call.before.seq)) =>
    LET c == call.before.xpos
        n == Len(call.before.seq)
        now == vcpus[call.hart].xpos
    IN IF ~call.back
         THEN IF c < n THEN call.exc = "None" /\ now = c + 1
              ELSE call.exc = "RuntimeError"
         ELSE IF c > 0 THEN call.exc = "None" /\ now = c - 1
              ELSE call.exc = "RuntimeError"

\* The indices of the recorded entries of v whose PC lies in one of the
\* breakpoint ranges of v.
BreakIndices(v) ==
  {i \in 0..(Len(v.seq) - 1) : HitBreak(v.hwbreaks, v.seq[i + 1]) # 0}

\* C25: cont(False, None) stops at the first index after the starting
\* cursor whose PC lies in a breakpoint range and returns False only when no
\* recorded entry after the cursor has such a PC; cont(True, None) stops at
\* the first such index before the starting cursor.
C25_ContStopsAtFirst ==
  (call.op = "cont" /\ call.addr = <<>>) =>
    LET v    == call.before
        now  == vcpus[call.hart].xpos
        hits == IF call.back THEN {i \in BreakIndices(v) : i < v.xpos}
                ELSE {i \in BreakIndices(v) : i > v.xpos}
    IN /\ call.exc = "None"
       /\ IF hits = {} THEN call.ret = FALSE
          ELSE /\ call.ret = TRUE
               /\ now \in hits
               /\ \A i \in hits : IF call.back THEN i <= now ELSE now <= i

\* The indices of the recorded entries of v with the PC a that the search
\* of a resume address meets: from the cursor on in the travel direction.
ResumeIndices(v, a, back) ==
  {i \in 0..(Len(v.seq) - 1) :
     v.seq[i + 1] = a /\ (IF back THEN i <= v.xpos ELSE i >= v.xpos)}

\* The nearest of the indices S in the travel direction.
Nearest(S, back) ==
  CHOOSE i \in S : \A j \in S : IF back THEN j <= i ELSE i <= j

\* C26: from a cursor c <= len(seq), cont(back, addr) moves the cursor to
\* the nearest index whose PC is addr, searching from the cursor in the
\* travel direction, and continues from there; when there is no such index
\* it does not raise, leaves the cursor at len(seq) and returns False.
C26_ResumeAddress ==
  (call.op = "cont" /\ call.addr # <<>>
     /\ call.before.xpos <= Len(call.before.seq)) =>
    LET v    == call.before
        S    == ResumeIndices(v, call.addr[1], call.back)
        now  == vcpus[call.hart].xpos
    IN /\ call.exc = "None"
       /\ IF S = {}
            THEN call.ret = FALSE /\ now = Len(v.seq)
            ELSE LET r == cont([v EXCEPT !.xpos = Nearest(S, call.back)],
                               banks, call.back, <<>>)
                 IN call.ret = r.ret /\ now = r.v.xpos

\* The indices i and j are two entries of one run of consecutive equal PCs
\* of the sequence seq.
SameRun(seq, i, j) ==
  /\ i # j
  /\ i < Len(seq) /\ j < Len(seq)
  /\ \A k \in 0..(Len(seq) - 1) :
       ((i <= k /\ k <= j) \/ (j <= k /\ k <= i)) => seq[k + 1] = seq[i + 1]

\* The index i is the first entry of its run of equal PCs in the direction
\* of travel.
FirstOfRun(seq, i, back) ==
  /\ i < Len(seq)
  /\ IF back THEN i = Len(seq) - 1 \/ seq[i + 2] # seq[i + 1]
     ELSE i = 0 \/ seq[i] # seq[i + 1]

\* C27: when a continue has stopped on the first entry of a run of equal
\* PCs inside a breakpoint range, the next continue of the same hart in the
\* same direction does not stop on a following entry of the same run.
C27_FiresOncePerRun ==
  [][ \A h \in DOMAIN vcpus :
        (/\ call.op = "cont" /\ call.hart = h /\ call.ret
         /\ FirstOfRun(vcpus[h].seq, vcpus[h].xpos, call.back)
         /\ call'.op = "cont" /\ call'.hart = h /\ call'.addr = <<>>
         /\ call'.back = call.back
         /\ call'.before = vcpus[h])
        => ~(call'.ret /\ SameRun(vcpus[h].seq, vcpus[h].xpos, vcpus'[h].xpos))
    ]_vars

\* The buffer b holds a `$`, a payload, the `#` that ends it and exactly one
\* character after it.
OneChecksumChar(b) ==
  /\ Find(b, DOLLAR_B, 0) >= 0
  /\ FindEnd(b, Find(b, DOLLAR_B, 0)) >= 0
  /\ Len(b) - FindEnd(b, Find(b, DOLLAR_B, 0)) = 2

\* C28: while the buffer holds a frame up to the first of its two checksum
\* characters only, the receive loop sends no acknowledgement, dispatches
\* nothing and keeps the buffer to wait for more bytes.
C28_WaitsForChecksum ==
  [][ (srv = "serving" /\ io' # io /\ OneChecksumChar(io'.seen)
         /\ ~SocketRaised(io'.out))
      => /\ io'.out = <<>>
         /\ buf' = io'.seen
         /\ srv' = "serving" ]_vars

\* The 2 * xlen lowercase hex digits of the xlen low little-endian bytes of
\* the wide integer d.
PcHex(d) == Hexlify([i \in 1..XLen |-> IF i <= Len(d) THEN d[i] ELSE 0])

\* C29: for every PC that is current, recorded or past the end, also one of
\* 2^32 or more, the encoding does not fail: the T reply of s, bs, c and bc
\* is T05, the register index 20, a colon, the PC as xlen little-endian
\* bytes in hex and a semicolon, and the g reply ends with the same digits.
C29_PcEncoding ==
  call.op \in {"_do_s", "_do_bs", "_do_c", "_do_bc", "_do_g"} =>
    LET now  == pc_wide(vcpus[call.hart], banks)
        text == call.addr[1]
    IN /\ call.exc # "OverflowError"
       /\ (call.exc = "None" /\ call.op # "_do_g" /\ text[1] = Ord("T")) =>
            /\ PySlice(text, 0, 6) = Bytes(<<"T", "0", "5", "2", "0", ":">>)
            /\ PySlice(text, 6, 6 + 2 * XLen) = PcHex(now)
            /\ text[7 + 2 * XLen] = Ord(";")
       /\ (call.exc = "None" /\ call.op = "_do_g") =>
            /\ Len(text) = 33 * 2 * XLen
            /\ PySlice(text, 32 * 2 * XLen, Len(text)) = PcHex(now)

\* C30: every call of cont returns, in both directions, with and without a
\* resume address, from every starting cursor and with every breakpoint
\* set, also on runs of equal PCs where the equal-PC skip is taken at every
\* pass.
C30_ContTerminates == Running ~> (call.op = "cont" /\ call.at = "done")

\* A call has returned after it took the equal-PC skip on two passes.
C30_Witness == call.op = "cont" /\ call.at = "done" /\ Cardinality(call.skips) >= 2

\* C31: the operative hart, once set, is the smallest loaded hart, whatever
\* H commands were received, and every other hart keeps its cursor at 0 and
\* an empty breakpoint set.
C31_OperativeHartSmallest ==
  /\ thread_id # <<>> => thread_id = <<FirstHart>>
  /\ \A h \in DOMAIN vcpus \ {FirstHart} :
       vcpus[h].xpos = 0 /\ vcpus[h].hwbreaks = <<>>

\* A step was dispatched while the selector named another loaded hart, and
\* it moved the smallest hart, which also holds a breakpoint.
C31_Witness ==
  /\ io.data = Frame(Bytes(<<"s">>))
  /\ Dispatched(io.out) # <<>> /\ ~SocketRaised(io.out)
  /\ select_thread_id # <<>>
  /\ select_thread_id[1] \in DOMAIN vcpus \ {FirstHart}
  /\ vcpus[FirstHart].xpos > 0
  /\ vcpus[FirstHart].hwbreaks # <<>>

\* The breakpoint list of every hart.
BreaksOf(vs) == [h \in DOMAIN vs |-> vs[h].hwbreaks]

\* C32: the dispatch of k and the acceptance of a connection change neither
\* a breakpoint set nor the operative hart nor the selector; a breakpoint
\* that is in the set is reported as a duplicate (E02) when inserted again;
\* and a breakpoint list loses an element only when a z command is
\* dispatched.
C32_BreakpointsSurviveKill ==
  [][ /\ ( \/ srv = "accept" /\ srv' = "serving"
           \/ /\ srv = "serving" /\ ~PeerClosed
              /\ io'.data = Frame(Bytes(<<"k">>))
              /\ Dispatched(io'.out) # <<>> )
         => /\ BreaksOf(vcpus') = BreaksOf(vcpus)
            /\ thread_id' = thread_id
            /\ select_thread_id' = select_thread_id
      /\ \A c \in BreakCmds :
           ( /\ ~c.remove /\ thread_id # <<>> /\ srv = "serving" /\ ~PeerClosed
             /\ io'.data = Frame(c.p) /\ Dispatched(io'.out) # <<>>
             /\ ~SocketRaised(io'.out)
             /\ Holding(vcpus[thread_id[1]].hwbreaks, c.addr, c.len) # {} )
           => /\ Replies(io'.out) = <<Ev("send", _send_bytes(E02))>>
              /\ BreaksOf(vcpus') = BreaksOf(vcpus)
      /\ ( \E h \in DOMAIN vcpus :
             \/ Len(vcpus'[h].hwbreaks) < Len(vcpus[h].hwbreaks)
             \/ SubSeq(vcpus'[h].hwbreaks, 1, Len(vcpus[h].hwbreaks))
                  # vcpus[h].hwbreaks )
         => /\ \E c \in BreakCmds : c.remove /\ io'.data = Frame(c.p)
            /\ Dispatched(io'.out) # <<>> ]_vars

\* A connection has just been accepted while a hart holds a breakpoint and
\* a selection is in place: both were made by an earlier client, whose
\* session ended with k.
C32_Witness ==
  /\ srv = "serving"
  /\ io = NoIO
  /\ thread_id # <<>>
  /\ select_thread_id # <<>>
  /\ \E h \in DOMAIN vcpus : vcpus[h].hwbreaks # <<>>

====
